---------------------------- MODULE Spec2Model ----------------------------
(***************************************************************************)
(* A model of the NC budget chat assistant (MCP-Spend-Spotter):            *)
(*   - the session manager (chat/session_manager.py),                      *)
(*   - the orchestration workflow (chat/claude_main.py, chat/graph_nodes.py)*)
(*   - the tool handlers and SQL validators (chat/tools, agent_functions),  *)
(*   - the agent client / worker pipe (chat/agents/agent_client.py),        *)
(*   - the worker's RAG readiness gate (chat/agents/nc_budget_agent.py).    *)
(* Each subsystem has its own specification over the shared variables.     *)
(***************************************************************************)
EXTENDS Integers, Sequences, FiniteSets, TLC

VARIABLES
    \* ---- session manager (process-wide singleton) ----
    sessions,      \* SessionManager.sessions: session id -> [messages, last_accessed]
    now,           \* the wall clock read by time.time()
    gc_now,        \* the GC thread's `now` local (-1: the thread is sleeping)
    sm_log,        \* history: number of add_exchange calls made so far
    sm_added,      \* history: per session id, the [user, response] pairs
                   \* passed to add_exchange since the session was created
    gc_removed,    \* history: the session ids the last GC pass deleted
    \* ---- worker process: the tools/call being served ----
    tool_call,     \* [name, arguments] of the request, or NoCall when idle
    tool_replies,  \* what the SQL model, the databases and matplotlib answer
    tool_handled,  \* [envelope, executed] handed back by handle_tools_call
    \* ---- agent client and the pipes to the worker process ----
    agent_process, \* MCPAgentClient.agent_process: "none" or "running"
    pipe_in,       \* request lines written to the worker's stdin, unread
    pipe_out,      \* response lines written to the worker's stdout, unread
    cl_pc,         \* per caller: "idle", "written" (request flushed), "returned"
    cl_request,    \* per caller: the request its call_tool built
    cl_line,       \* per caller: the response line its readline returned
    cl_calls,      \* history: number of call_tool calls started
    start_call,    \* start(): [pc, init_line], pc one of "idle", "handshake",
                   \* "returned", "raised"
    proc,          \* the subprocess: "none", "alive", "terminated"
    \* ---- worker process: AgentState and the RAG readiness gate ----
    loader_pc,     \* where the thread running _load_rag_models is
    rag_loaded,    \* the AgentState attributes that hold a loaded object
    rag_ready,     \* AgentState._rag_ready is set
    rag_pc,        \* handle_query_budget_context: "idle", "waiting", "answered"
    rag_arguments, \* the arguments of the query_budget_context call served
    rag_envelope,  \* the envelope it returned
    rag_log,       \* history: per call of the RAG function, the gate and the
                   \* loaded attributes at the moment of the call
    rag_blocked,   \* history: the handler found the gate clear when it got
                   \* to the wait
    \* ---- orchestration workflow: one process_message call at a time ----
    wf_engine,     \* whose nodes run: "claude_main" or "graph_nodes"
    wf_pc,         \* "idle", the node about to run, "END", "raised", "returned"
    wf_state,      \* the GraphState handed from node to node
    wf_hist,       \* history of the call: nodes run, routes returned, ...
    wf_response,   \* response_data returned by process_message
    \* ---- REST boundary (api.py): one request at a time ----
    api_key,       \* os.getenv("BACKEND_API_KEY"): "unset", "" or the secret
    claude_system, \* the global set by startup_event: "none" or "ready"
    api_pc,        \* "idle", "processing" (in process_message), "responded"
    api_request,   \* [route, x_api_key, session_id] of the request handled
    api_status,    \* status code of the response (0: none yet)
    api_before,    \* history: the sessions when the request came in
    \* ---- functions applied to drawn inputs ----
    fn_call,       \* [fn, args]: the function to apply and its arguments
    fn_result,     \* [done, val]: whether it has returned, and what
    \* ---- Database Builder (sql_init.py), run as a script ----
    csv_files,     \* per CSV file: [found, rows], a row being its width
    vendor_db,     \* vendor.db as committed: [exists, rows, seq]
    budget_db,     \* budget.db as committed
    build,         \* the running script: [pc, run, vendor, budget, ends]
    \* ---- the worker's request loop (run_nc_budget_agent) on its own ----
    stdin_lines,   \* the lines not read yet; after the last, end of input
    stdout_lines,  \* the response lines written
    loop_pc,       \* "serving", "stopped" (left by break), "raised"
    loop_request,  \* the local variable `request`
    loop_read      \* history: the lines read so far

smVars == <<sessions, now, gc_now, sm_log, sm_added, gc_removed>>

toolVars == <<tool_call, tool_replies, tool_handled>>

clientVars == <<agent_process, pipe_in, pipe_out, cl_pc, cl_request, cl_line, cl_calls,
                start_call, proc>>

gateVars == <<loader_pc, rag_loaded, rag_ready, rag_pc, rag_arguments,
              rag_envelope, rag_log, rag_blocked>>

flowVars == <<wf_engine, wf_pc, wf_state, wf_hist, wf_response>>

apiVars == <<api_key, claude_system, api_pc, api_request, api_status, api_before>>

fnVars == <<fn_call, fn_result>>

builderVars == <<csv_files, vendor_db, budget_db, build>>

loopVars == <<stdin_lines, stdout_lines, loop_pc, loop_request, loop_read>>

vars == <<sessions, now, gc_now, sm_log, sm_added, gc_removed,
          tool_call, tool_replies, tool_handled,
          agent_process, pipe_in, pipe_out, cl_pc, cl_request, cl_line, cl_calls,
          start_call, proc,
          loader_pc, rag_loaded, rag_ready, rag_pc, rag_arguments,
          rag_envelope, rag_log, rag_blocked,
          wf_engine, wf_pc, wf_state, wf_hist, wf_response,
          api_key, claude_system, api_pc, api_request, api_status, api_before,
          fn_call, fn_result,
          csv_files, vendor_db, budget_db, build,
          stdin_lines, stdout_lines, loop_pc, loop_request, loop_read>>

-----------------------------------------------------------------------------
(* Bounds of the model *)

MaxTicks == 3         \* the clock advances at most this many times
TickSeconds == 900    \* seconds that pass in one step of the clock
MaxAdds == 3          \* add_exchange calls explored by SpecSession
MaxSqlAtoms == 3      \* longest SQL text tried, in atoms
MaxCalls == 3         \* call_tool calls explored by SpecClient
MaxRagCalls == 3      \* query_budget_context calls explored by SpecGate
MaxMessages == 1      \* process_message calls explored by SpecFlow
MaxRequests == 2      \* HTTP requests explored by SpecApi
MaxHits == 2          \* most hits in one vector-search result
MaxCsvRows == 1       \* most data rows of vendor_data.csv and budget_data.csv
MaxRuns == 2          \* runs of the Database Builder
MaxLines == 3         \* most input lines given to the request loop

(* Program constants *)

window_size == 2      \* SessionManager(window_size=2)
ttl_seconds == 1800   \* SessionManager(ttl_seconds=1800)
max_chars == 2000     \* _truncate_content(..., max_chars=2000)

-----------------------------------------------------------------------------
(* Texts: a string is modelled by an identity, its length, and the number  *)
(* of characters a truncation marker says were cut.                        *)

(* The identity is a name and a serial number, so that the texts of two    *)
(* calls can be told apart.                                                *)

Text(name, n, len) == [id |-> <<name, n>>, len |-> len, omitted |-> 0]

EmptyText == Text("", 0, 0)

IsEmptyText(t) == t.len = 0

SessionIds == {"s1", "s2"}

\* lengths of the assistant responses tried: short, at the limit, over it
ResponseLens == {10, max_chars, max_chars + 1}

\* SessionManager._truncate_content
_truncate_content(content, limit) ==
    IF content.len <= limit
    THEN content
    ELSE [id |-> content.id, len |-> limit, omitted |-> content.len - limit]

Message(role, content) == [role |-> role, content |-> content]

\* the last n elements of a list: lst[-n:]
LastN(lst, n) ==
    IF Len(lst) <= n THEN lst ELSE SubSeq(lst, Len(lst) - n + 1, Len(lst))

NewSession(t) == [messages |-> <<>>, last_accessed |-> t]

\* `if session_id not in self.sessions: self.sessions[session_id] = {...}`
EnsureSession(ss, sid, t) ==
    IF sid \in DOMAIN ss THEN ss ELSE ss @@ (sid :> NewSession(t))

\* a trim that compares against one exchange too many
TrimWindow_late(msgs) ==
    IF Len(msgs) > window_size * 2 + 2 THEN LastN(msgs, window_size * 2) ELSE msgs

\* the trim of add_exchange: keep only the last window_size exchanges
TrimWindow(msgs) ==
    IF Len(msgs) > window_size * 2 THEN LastN(msgs, window_size * 2) ELSE msgs

\* an add_exchange that trims before it appends
SM_add_exchange_trim_first(ss, sid, user_message, ai_response, t) ==
    LET ss1 == EnsureSession(ss, sid, t)
        truncated_response == _truncate_content(ai_response, max_chars)
        appended == Append(Append(TrimWindow(ss1[sid].messages),
                                  Message("user", user_message)),
                           Message("assistant", truncated_response))
    IN [ss1 EXCEPT ![sid] = [messages |-> appended, last_accessed |-> t]]

\* SessionManager.add_exchange, the body run under self.lock
SM_add_exchange(ss, sid, user_message, ai_response, t) ==
    LET ss1 == EnsureSession(ss, sid, t)
        truncated_response == _truncate_content(ai_response, max_chars)
        appended == Append(Append(ss1[sid].messages,
                                  Message("user", user_message)),
                           Message("assistant", truncated_response))
    IN [ss1 EXCEPT ![sid] = [messages |-> TrimWindow(appended),
                             last_accessed |-> t]]

\* SessionManager.get_messages: the sessions after the call (lazy creation,
\* last_accessed refreshed)
SM_touch(ss, sid, t) ==
    LET ss1 == EnsureSession(ss, sid, t)
    IN [ss1 EXCEPT ![sid].last_accessed = t]

\* SessionManager.get_messages: the copy it returns
SM_get_messages(ss, sid) ==
    IF sid \in DOMAIN ss THEN ss[sid].messages ELSE <<>>

\* SessionManager.clear_session
SM_clear_session(ss, sid) ==
    [s \in (DOMAIN ss) \ {sid} |-> ss[s]]

\* SessionManager._garbage_collect, the sweep run under self.lock with the
\* `now` read before the lock was taken
SM_expired_early(ss, t) ==
    {sid \in DOMAIN ss : t - ss[sid].last_accessed >= ttl_seconds}

SM_expired(ss, t) ==
    {sid \in DOMAIN ss : t - ss[sid].last_accessed > ttl_seconds}

SM_sweep(ss, t) ==
    [s \in (DOMAIN ss) \ SM_expired(ss, t) |-> ss[s]]

NoSessions == [s \in {} |-> NewSession(0)]

\* no add_exchange call has been made on any session
NoAdded == [sid \in SessionIds |-> <<>>]

\* the history after add_exchange(sid, user_message, ai_response)
Added(added, sid, user_message, ai_response) ==
    [added EXCEPT ![sid] = Append(@, [user |-> user_message, response |-> ai_response])]

\* the history after the sessions in sids were deleted
Forgotten(added, sids) ==
    [sid \in SessionIds |-> IF sid \in sids THEN <<>> ELSE added[sid]]


-----------------------------------------------------------------------------
(* SQL text.  A Python string is modelled as a sequence of atoms: words and  *)
(* the separators between them.  Two adjacent word atoms form one longer    *)
(* word, so <<"SELECT", "DROP">> is the text "SELECTDROP".  No atom is a    *)
(* proper part of a searched keyword, so a keyword occurs in a text exactly *)
(* where one atom holds it.                                                 *)

Space == " "
Newline == "\n"
Semicolon == ";"

Whitespace == {Space, Newline}

SqlWords == {"SELECT", "select", "DROP", "drop", "DROPS", "vendor_payments",
             "BUDGET", "fiscal_year", "WHERE", "LIMIT"}

Atoms == SqlWords \cup Whitespace \cup {Semicolon}

\* str.upper() of one atom
AtomUpper(a) ==
    CASE a = "select" -> "SELECT"
      [] a = "drop" -> "DROP"
      [] a = "vendor_payments" -> "VENDOR_PAYMENTS"
      [] a = "fiscal_year" -> "FISCAL_YEAR"
      [] a = "Vendor_Payments" -> "VENDOR_PAYMENTS"
      [] a = "budget" -> "BUDGET"
      [] a = "Budget" -> "BUDGET"
      [] OTHER -> a

\* str.lower() of one atom
AtomLower(a) ==
    CASE a = "SELECT" -> "select"
      [] a = "DROP" -> "drop"
      [] a = "DROPS" -> "drops"
      [] a = "BUDGET" -> "budget"
      [] a = "WHERE" -> "where"
      [] a = "LIMIT" -> "limit"
      [] a = "VENDOR_PAYMENTS" -> "vendor_payments"
      [] a = "Vendor_Payments" -> "vendor_payments"
      [] a = "Budget" -> "budget"
      [] OTHER -> a

\* `needle in a` for one atom a
AtomContains(a, needle) ==
    \/ a = needle
    \/ <<a, needle>> \in {<<"DROPS", "DROP">>, <<"drops", "drop">>}

\* a.startswith(prefix) for one atom a
AtomStartsWith(a, prefix) ==
    \/ a = prefix
    \/ <<a, prefix>> \in {<<"DROPS", "DROP">>, <<"drops", "drop">>}

str_upper(s) == [i \in 1..Len(s) |-> AtomUpper(s[i])]

str_lower(s) == [i \in 1..Len(s) |-> AtomLower(s[i])]

RECURSIVE str_lstrip(_)
str_lstrip(s) ==
    IF Len(s) > 0 /\ s[1] \in Whitespace THEN str_lstrip(Tail(s)) ELSE s

RECURSIVE str_rstrip(_, _)
str_rstrip(s, chars) ==
    IF Len(s) > 0 /\ s[Len(s)] \in chars
    THEN str_rstrip(SubSeq(s, 1, Len(s) - 1), chars)
    ELSE s

\* str.strip()
str_strip(s) == str_rstrip(str_lstrip(s), Whitespace)

\* `needle in s`
str_contains(s, needle) == \E i \in 1..Len(s) : AtomContains(s[i], needle)

\* s.startswith(prefix)
str_startswith(s, prefix) == Len(s) > 0 /\ AtomStartsWith(s[1], prefix)

\* s.startswith(keyword + ' ')
str_startswith_word(s, keyword) ==
    Len(s) > 1 /\ s[1] = keyword /\ s[2] = Space

\* f' {keyword} ' in f' {s} '
str_has_padded(s, keyword) ==
    \E i \in 1..Len(s) :
        /\ s[i] = keyword
        /\ (i = 1 \/ s[i - 1] = Space)
        /\ (i = Len(s) \/ s[i + 1] = Space)

destructive_keywords ==
    <<"DROP", "DELETE", "INSERT", "UPDATE", "ALTER",
      "CREATE", "TRUNCATE", "REPLACE", "MERGE">>

\* a warning message: its bracketed tag and what it reports (the kind of
\* finding, the row number or 0, and the quoted words)
Warning(tag, kind, row, text) == [tag |-> tag, detail |-> <<kind, row, text>>]

\* the keyword test shared by both SQL validators
KeywordHit(sql_upper, keyword) ==
    \/ str_has_padded(sql_upper, keyword)
    \/ str_startswith_word(sql_upper, keyword)

\* `';' in sql.rstrip(';')`
MultipleStatements(sql) == str_contains(str_rstrip(sql, {Semicolon}), Semicolon)

\* validators/sql_validator.py: sql_validator, the blocking check
sql_validator(sql) ==
    LET sql_upper == str_strip(str_upper(sql))
        hits == {k \in 1..Len(destructive_keywords) :
                     KeywordHit(sql_upper, destructive_keywords[k])}
        first == CHOOSE k \in hits : \A j \in hits : k <= j
    IN  IF hits # {}
        THEN [is_safe |-> FALSE,
              warnings |-> <<Warning("SQL_SAFETY", "destructive", 0,
                                     <<destructive_keywords[first]>>)>>]
        ELSE IF MultipleStatements(sql)
        THEN [is_safe |-> FALSE,
              warnings |-> <<Warning("SQL_SAFETY", "multiple", 0, <<>>)>>]
        ELSE [is_safe |-> TRUE, warnings |-> <<>>]

RECURSIVE KeywordWarnings(_, _)
KeywordWarnings(sql_upper, k) ==
    IF k > Len(destructive_keywords) THEN <<>>
    ELSE (IF KeywordHit(sql_upper, destructive_keywords[k])
          THEN <<Warning("SQL_VALIDATOR", "destructive", 0,
                         <<destructive_keywords[k]>>)>>
          ELSE <<>>) \o KeywordWarnings(sql_upper, k + 1)

\* agent_functions/sql/validator.py: validate_sql_query, the advisory check
validate_sql_query(sql) ==
    LET sql_upper == str_upper(sql)
    IN  KeywordWarnings(sql_upper, 1)
        \o (IF MultipleStatements(sql)
            THEN <<Warning("SQL_VALIDATOR", "multiple", 0, <<>>)>> ELSE <<>>)
        \o (IF ~str_startswith(str_strip(sql_upper), "SELECT")
            THEN <<Warning("SQL_VALIDATOR", "non_select", 0, <<>>)>> ELSE <<>>)
        \o (IF ~str_contains(sql_upper, "WHERE") /\ ~str_contains(sql_upper, "LIMIT")
            THEN <<Warning("SQL_VALIDATOR", "full_scan", 0, <<>>)>> ELSE <<>>)

\* a select_tool that looks for the budget table first
select_tool_budget_first(sql) ==
    LET sql_lower == str_lower(sql)
    IN  IF str_contains(sql_lower, "budget") THEN "query_budget"
        ELSE IF str_contains(sql_lower, "vendor_payments") THEN "query_vendor_payments"
        ELSE "query_vendor_payments"

\* query_planner.py: select_tool
select_tool(sql) ==
    LET sql_lower == str_lower(sql)
    IN  IF str_contains(sql_lower, "vendor_payments") THEN "query_vendor_payments"
        ELSE IF str_contains(sql_lower, "budget") THEN "query_budget"
        ELSE "query_vendor_payments"

-----------------------------------------------------------------------------
(* JSON values.  Every value is a record [t, v, more]: t is the Python type *)
(* ("list", "str", "dict", "null"), v the content.  A list is the rows v    *)
(* followed by `more` further rows that all equal FillerRow, so that long   *)
(* result sets need not be written out.  A str is a sequence of atoms (SQL) *)
(* or the parts of a message.                                               *)

JList(rows, more) == [t |-> "list", v |-> rows, more |-> more]
JStr(text) == [t |-> "str", v |-> text, more |-> 0]
JDict(d) == [t |-> "dict", v |-> d, more |-> 0]
JNull == [t |-> "null", v |-> <<>>, more |-> 0]

EmptyList == JList(<<>>, 0)
EmptyStr == JStr(<<>>)

\* "Error executing query: " has 23 characters; every message that reaches
\* a place where its length is taken starts with it
ErrorPrefixLen == 23

\* len(x)
py_len(x) ==
    CASE x.t = "list" -> Len(x.v) + x.more
      [] x.t = "str" -> IF x.v = <<>> THEN 0 ELSE ErrorPrefixLen
      [] x.t = "dict" -> Cardinality(DOMAIN x.v)
      [] OTHER -> 0

\* bool(x): None, "", [] and {} are false
py_truthy(x) == x.t # "null" /\ py_len(x) > 0

\* A cell of a result row: its Python type, whether the text parses as a
\* number, and the number.
StrCell(val) == [py |-> "str", ok |-> TRUE, val |-> val]
JunkCell == [py |-> "str", ok |-> FALSE, val |-> 0]
NumCell(val) == [py |-> "num", ok |-> TRUE, val |-> val]
NoneCell == [py |-> "none", ok |-> FALSE, val |-> 0]

\* a row without money or fiscal-year columns
FillerRow == [name |-> JunkCell]

\* results[i] of a list
RowAt(results, i) == IF i <= Len(results.v) THEN results.v[i] ELSE FillerRow

money_fields ==
    <<"payment", "expenditures", "receipts", "net_appropriations", "total", "amount">>

valid_fiscal_years == {2024, 2025, 2026}

sample_limit == 10
large_result_limit == 10000

Min(a, b) == IF a <= b THEN a ELSE b

\* validate_query_results: the money check of one field of one row
MoneyWarnings(row, i, field) ==
    IF field \notin DOMAIN row THEN <<>>
    ELSE LET value == row[field]
         IN  IF value.py = "str" /\ ~value.ok THEN <<>>
             ELSE IF value.py \in {"str", "num"} /\ value.val < 0
             THEN <<Warning("RESULT_VALIDATOR", "negative", i, <<field>>)>>
             ELSE <<>>

RECURSIVE RowMoneyWarnings(_, _, _)
RowMoneyWarnings(row, i, k) ==
    IF k > Len(money_fields) THEN <<>>
    ELSE MoneyWarnings(row, i, money_fields[k]) \o RowMoneyWarnings(row, i, k + 1)

\* validate_query_results: the fiscal-year check of one row
YearWarnings(row, i) ==
    IF "fiscal_year" \notin DOMAIN row THEN <<>>
    ELSE LET year == row["fiscal_year"]
         IN  IF year.py = "str" /\ ~year.ok
             THEN <<Warning("RESULT_VALIDATOR", "invalid_year", i, <<"fiscal_year">>)>>
             ELSE IF year.py = "none" \/ year.val \notin valid_fiscal_years
             THEN <<Warning("RESULT_VALIDATOR", "unexpected_year", i, <<"fiscal_year">>)>>
             ELSE <<>>

RECURSIVE SampleWarnings(_, _, _)
SampleWarnings(results, i, sample_size) ==
    IF i > sample_size THEN <<>>
    ELSE RowMoneyWarnings(RowAt(results, i), i, 1)
         \o YearWarnings(RowAt(results, i), i)
         \o SampleWarnings(results, i + 1, sample_size)

\* a validate_query_results that reports the failure and goes on checking
validate_query_results_goes_on(results, sql, query_error) ==
    (IF py_truthy(query_error)
     THEN <<Warning("QUERY_FAILED", "error", 0, query_error.v)>> ELSE <<>>)
    \o (IF py_truthy(sql) /\ py_len(results) = 0
        THEN <<Warning("EMPTY_RESULTS", "empty", 0, <<>>)>> ELSE <<>>)
    \o (IF results.t = "list"
        THEN SampleWarnings(results, 1, Min(sample_limit, py_len(results)))
        ELSE <<>>)
    \o (IF py_len(results) > large_result_limit
        THEN <<Warning("RESULT_VALIDATOR", "large", 0, <<>>)>>
        ELSE <<>>)

\* validators/sql_validator.py: validate_query_results.  `results` is a list
\* of rows or, when the tool handed back a message instead, a str, whose
\* "rows" are single characters and hold no field.
validate_query_results(results, sql, query_error) ==
    IF py_truthy(query_error)
    THEN <<Warning("QUERY_FAILED", "error", 0, query_error.v)>>
    ELSE IF py_truthy(sql) /\ py_len(results) = 0
    THEN <<Warning("EMPTY_RESULTS", "empty", 0, <<>>)>>
    ELSE (IF results.t = "list"
          THEN SampleWarnings(results, 1, Min(sample_limit, py_len(results)))
          ELSE <<>>)
         \o (IF py_len(results) > large_result_limit
             THEN <<Warning("RESULT_VALIDATOR", "large", 0, <<>>)>>
             ELSE <<>>)

-----------------------------------------------------------------------------
(* The tool handlers of the worker.  A function that may raise yields a     *)
(* record [raised, val, err, executed]; `executed` lists the statements it  *)
(* handed to a database cursor.  What the database engine, the SQL model    *)
(* and the plotting library answer is an input of the operators.            *)

Return(val, executed) ==
    [raised |-> FALSE, val |-> val, err |-> <<>>, executed |-> executed]

Raise(err, executed) ==
    [raised |-> TRUE, val |-> JNull, err |-> err, executed |-> executed]

Statement(db, sql) == [db |-> db, sql |-> sql]

\* the shared body of execute_vendor_query and execute_budget_query;
\* db_reply is what cursor.execute / fetchall do with the statement
execute_query(db, query, db_reply) ==
    IF query.t # "str" THEN Raise(<<"AttributeError">>, <<>>)
    ELSE IF ~str_startswith(str_upper(str_strip(query.v)), "SELECT")
    THEN Raise(<<"Only SELECT queries are allowed">>, <<>>)
    ELSE IF db_reply.ok
    THEN Return(db_reply.rows, <<Statement(db, query.v)>>)
    ELSE Raise(<<"OperationalError">>, <<Statement(db, query.v)>>)

execute_vendor_query(query, db_reply) == execute_query("vendor.db", query, db_reply)

execute_budget_query(query, db_reply) == execute_query("budget.db", query, db_reply)

\* the text item of an envelope: json.dumps(val), or a plain message
JsonText(val) == [fmt |-> "json", val |-> val]
PlainText(parts) == [fmt |-> "plain", val |-> JStr(parts)]

\* json.loads(text): a plain message is not JSON
json_loads(text) ==
    IF text.fmt = "json" THEN Return(text.val, <<>>)
    ELSE Raise(<<"JSONDecodeError">>, <<>>)

\* {"content": [{"type": "text", "text": ...}]} with or without "isError": True
Envelope(text, isError) ==
    [content |-> <<[type |-> "text", text |-> text]>>, isError |-> isError]

\* what a handler hands back: its envelope and the statements it executed
Handled(envelope, executed) == [envelope |-> envelope, executed |-> executed]

\* arguments["query"]
ArgItem(arguments, key) ==
    IF arguments.t # "dict" THEN Raise(<<"TypeError">>, <<>>)
    ELSE IF key \notin DOMAIN arguments.v THEN Raise(<<"KeyError", key>>, <<>>)
    ELSE Return(arguments.v[key], <<>>)

\* arguments.get("query", default)
ArgGet(arguments, key, default) ==
    IF arguments.t # "dict" THEN Raise(<<"AttributeError">>, <<>>)
    ELSE IF key \notin DOMAIN arguments.v THEN Return(default, <<>>)
    ELSE Return(arguments.v[key], <<>>)

\* the shared body of handle_query_vendor_payments and handle_query_budget
handle_direct_query(db, arguments, db_reply) ==
    LET query == ArgItem(arguments, "query")
        results == execute_query(db, query.val, db_reply)
    IN  IF query.raised
        THEN Handled(Envelope(PlainText(<<"Error executing query: ">> \o query.err),
                              TRUE), <<>>)
        ELSE IF results.raised
        THEN Handled(Envelope(PlainText(<<"Error executing query: ">> \o results.err),
                              TRUE), results.executed)
        ELSE Handled(Envelope(JsonText(results.val), FALSE), results.executed)

handle_query_vendor_payments(arguments, db_reply) ==
    handle_direct_query("vendor.db", arguments, db_reply)

handle_query_budget(arguments, db_reply) ==
    handle_direct_query("budget.db", arguments, db_reply)

\* query_planner.py: generate_sql_with_llm.  llm_reply is what
\* llm_client.invoke does: it raises, or answers with a text.  The texts
\* tried hold no markdown fence, so the clean-up of fences changes nothing
\* and the SQL is response.content.strip().
generate_sql_with_llm(user_query, llm_reply) ==
    IF llm_reply.ok THEN Return(JStr(str_strip(llm_reply.content)), <<>>)
    ELSE Raise(<<"APIError">>, <<>>)

\* query_planner.py: plan_query
plan_query(user_query, llm_reply) ==
    LET sql == generate_sql_with_llm(user_query, llm_reply)
    IN  IF sql.raised THEN sql
        ELSE Return([tool |-> select_tool(sql.val.v),
                     sql |-> sql.val,
                     arguments |-> JDict([query |-> sql.val]),
                     warnings |-> validate_sql_query(sql.val.v)], <<>>)

\* the statement _get_available_fiscal_years runs, shortened to its atoms
FiscalYearsQuery(table) == <<"SELECT", Space, "fiscal_year", Space, table>>

\* `row.get('fiscal_year')` is truthy
HasYear(row) ==
    /\ "fiscal_year" \in DOMAIN row
    /\ row["fiscal_year"].py # "none"
    /\ ~(row["fiscal_year"].py = "num" /\ row["fiscal_year"].val = 0)

\* query_planner.py: _get_available_fiscal_years; years_reply is what the
\* database does with the statement.  The value is the rows that hold a year.
_get_available_fiscal_years(tool, years_reply) ==
    LET results ==
            IF tool = "query_vendor_payments"
            THEN execute_vendor_query(JStr(FiscalYearsQuery("vendor_payments")),
                                      years_reply)
            ELSE execute_budget_query(JStr(FiscalYearsQuery("BUDGET")), years_reply)
    IN  IF tool \notin {"query_vendor_payments", "query_budget"}
        THEN Return(EmptyList, <<>>)
        ELSE IF results.raised THEN Return(EmptyList, results.executed)
        ELSE Return(JList(SelectSeq(results.val.v, HasYear), 0), results.executed)

\* query_planner.py: _explain_zero_results; ', '.join(sorted(years)) raises
\* a TypeError when a year is not a str
_explain_zero_results(user_query, sql, tool, years_reply) ==
    LET available_years == _get_available_fiscal_years(tool, years_reply)
        years == available_years.val.v
    IN  IF str_contains(str_lower(sql), "fiscal_year")
        THEN (IF py_truthy(available_years.val)
              THEN (IF \E i \in 1..Len(years) : years[i]["fiscal_year"].py # "str"
                    THEN Raise(<<"TypeError">>, available_years.executed)
                    ELSE Return(JStr(<<"No data found. You asked for a specific fiscal year">>),
                                available_years.executed))
              ELSE Return(JStr(<<"No data found. Unable to determine available fiscal years.">>),
                          available_years.executed))
        ELSE IF str_contains(str_upper(sql), "LIKE")
        THEN Return(JStr(<<"No exact matches found for that agency/vendor name.">>), <<>>)
        ELSE Return(JStr(<<"No results found for your query.">>), <<>>)

\* query_planner.py: explain_query_results
explain_query_results(user_query, sql, results, tool, years_reply) ==
    IF py_len(results) = 0
    THEN _explain_zero_results(user_query, sql, tool, years_reply)
    ELSE Return(JStr(<<"Found results">>), <<>>)

\* handlers.py: handle_query_sql
handle_query_sql(arguments, llm_reply, db_reply, years_reply) ==
    LET user_query == ArgGet(arguments, "query", EmptyStr)
        query_plan == plan_query(user_query.val, llm_reply)
        plan == query_plan.val
        result == IF plan.tool = "query_vendor_payments"
                  THEN handle_query_vendor_payments(plan.arguments, db_reply)
                  ELSE handle_query_budget(plan.arguments, db_reply)
        text == result.envelope.content[1].text
        parsed == json_loads(text)
        results == IF parsed.raised THEN text.val ELSE parsed.val
        explanation ==
            explain_query_results(user_query.val, plan.sql.v,
                                  IF results.t = "list" THEN results ELSE EmptyList,
                                  plan.tool, years_reply)
    IN  IF user_query.raised
        THEN Handled(Envelope(PlainText(<<"Error: ">> \o user_query.err), TRUE), <<>>)
        ELSE IF ~py_truthy(user_query.val)
        THEN Handled(Envelope(PlainText(<<"No query provided">>), TRUE), <<>>)
        ELSE IF query_plan.raised
        THEN Handled(Envelope(PlainText(<<"Error: ">> \o query_plan.err), TRUE), <<>>)
        ELSE IF plan.tool \notin {"query_vendor_payments", "query_budget"}
        THEN Handled(Envelope(PlainText(<<"Tool not found: ", plan.tool>>), TRUE), <<>>)
        ELSE IF explanation.raised
        THEN Handled(Envelope(PlainText(<<"Error: ">> \o explanation.err), TRUE),
                     result.executed \o explanation.executed)
        ELSE Handled(Envelope(JsonText(JDict([explanation |-> explanation.val,
                                              query |-> plan.sql,
                                              results |-> results,
                                              tool_used |-> plan.tool,
                                              warnings |-> plan.warnings])),
                              FALSE),
                     result.executed \o explanation.executed)

min_graph_rows == 4

\* graph_generator.py: generate_graph with graph_type "auto"; plot_reply is
\* what the conversion of the values and matplotlib do: "image" or "raise"
generate_graph(results, query, plot_reply) ==
    IF ~py_truthy(results) THEN Return(JNull, <<>>)
    ELSE IF py_len(results) < min_graph_rows THEN Return(JNull, <<>>)
    ELSE IF results.t # "list" THEN Raise(<<"AttributeError">>, <<>>)
    ELSE IF Cardinality(DOMAIN RowAt(results, 1)) < 2 THEN Return(JNull, <<>>)
    ELSE IF plot_reply = "image" THEN Return(JStr(<<"png">>), <<>>)
    ELSE Raise(<<"ValueError">>, <<>>)

\* implementations.py: create_graph_from_results
create_graph_from_results(results, query, plot_reply) ==
    LET image_base64 == generate_graph(results, query, plot_reply)
    IN  IF ~py_truthy(results) THEN JDict([graph |-> JNull])
        ELSE IF image_base64.raised THEN JDict([graph |-> JNull])
        ELSE IF ~py_truthy(image_base64.val) THEN JDict([graph |-> JNull])
        ELSE JDict([graph |-> image_base64.val,
                    format |-> "png",
                    encoding |-> "base64",
                    row_count |-> py_len(results)])

\* handlers.py: handle_create_graph
handle_create_graph(arguments, plot_reply) ==
    LET results == ArgItem(arguments, "results")
        query == ArgItem(arguments, "query")
    IN  IF results.raised
        THEN Handled(Envelope(PlainText(<<"Error creating graph: ">> \o results.err),
                              TRUE), <<>>)
        ELSE IF query.raised
        THEN Handled(Envelope(PlainText(<<"Error creating graph: ">> \o query.err),
                              TRUE), <<>>)
        ELSE Handled(Envelope(JsonText(create_graph_from_results(results.val, query.val,
                                                                 plot_reply)),
                              FALSE), <<>>)

\* handlers.py: handle_query_budget_context up to the wait on the readiness
\* gate: TRUE when it returns "No query provided" without waiting
RagQueryMissing(arguments) ==
    LET query == ArgGet(arguments, "query", EmptyStr)
    IN  query.raised \/ ~py_truthy(query.val)

\* handlers.py: handle_query_budget_context once the wait is over.  The
\* function it imports from .implementations takes (query, chat_history), so
\* the call with the model objects as keyword arguments raises a TypeError,
\* which the handler turns into an error envelope.
handle_query_budget_context(arguments) ==
    LET query == ArgGet(arguments, "query", EmptyStr)
    IN  IF query.raised
        THEN Handled(Envelope(JsonText(JDict([error |-> JStr(query.err)])), TRUE), <<>>)
        ELSE IF ~py_truthy(query.val)
        THEN Handled(Envelope(PlainText(<<"No query provided">>), TRUE), <<>>)
        ELSE Handled(Envelope(JsonText(JDict([error |-> JStr(<<"TypeError">>)])), TRUE),
                     <<>>)

\* The answers of the world outside the worker to one tools/call
Replies(llm_reply, db_reply, years_reply, plot_reply) ==
    [llm |-> llm_reply, db |-> db_reply, years |-> years_reply, plot |-> plot_reply]

\* nc_budget_agent.py: handle_tools_call
handle_tools_call(tool_name, arguments, replies) ==
    CASE tool_name = "query_vendor_payments" ->
             handle_query_vendor_payments(arguments, replies.db)
      [] tool_name = "query_budget" ->
             handle_query_budget(arguments, replies.db)
      [] tool_name = "create_graph" ->
             handle_create_graph(arguments, replies.plot)
      [] tool_name = "query_sql" ->
             handle_query_sql(arguments, replies.llm, replies.db, replies.years)
      [] tool_name = "query_budget_context" ->
             handle_query_budget_context(arguments)
      [] OTHER ->
             Handled(Envelope(PlainText(<<"Unknown tool: ", tool_name>>), TRUE), <<>>)

-----------------------------------------------------------------------------
(* The inputs tried: SQL texts, tool arguments, and the answers of the SQL  *)
(* model, the databases and the plotting library.                           *)

SqlTexts == UNION {[1..n -> Atoms] : n \in 0..MaxSqlAtoms}

RowPaid == [name |-> JunkCell, payment |-> StrCell(100), fiscal_year |-> StrCell(2025)]
RowNegative == [name |-> JunkCell, payment |-> StrCell(-5)]
RowOldYear == [name |-> JunkCell, fiscal_year |-> StrCell(1999)]

DbFails == [ok |-> FALSE, rows |-> EmptyList]
DbRows(results) == [ok |-> TRUE, rows |-> results]

LlmFails == [ok |-> FALSE, content |-> <<>>]
LlmSays(content) == [ok |-> TRUE, content |-> content]

DbReplies == {DbFails, DbRows(EmptyList), DbRows(JList(<<RowPaid>>, 0))}

YearsReplies == {DbFails,
                 DbRows(JList(<<[fiscal_year |-> StrCell(2025)]>>, 0)),
                 DbRows(JList(<<[fiscal_year |-> NumCell(2025)]>>, 0))}

PlotReplies == {"image", "raise"}

LlmReplies == {LlmFails} \cup {LlmSays(c) : c \in SqlTexts}

\* arguments that are no dict, lack the key, or hold no str under it
BadArguments == {JNull, JDict(<<>>), JDict([query |-> JNull])}

DirectArguments == BadArguments \cup {JDict([query |-> JStr(sql)]) : sql \in SqlTexts}

UserQuestion == JStr(<<"question">>)

QuestionArguments == BadArguments \cup {JDict([query |-> EmptyStr]),
                                       JDict([query |-> UserQuestion])}

GraphArguments ==
    BadArguments
    \cup {JDict([results |-> r, query |-> JStr(<<"SELECT">>)]) :
            r \in {EmptyList, JList(<<RowPaid>>, 0), JList(<<RowPaid>>, 3),
                   JList(<<FillerRow>>, 3), JStr(<<"Error executing query: ">>)}}

DefaultReplies == Replies(LlmFails, DbFails, DbFails, "raise")

NoCall == [name |-> "", arguments |-> JNull]
NoHandled == Handled(Envelope(PlainText(<<>>), FALSE), <<>>)

-----------------------------------------------------------------------------
(* The worker serving tools/call requests one at a time                    *)
(* (run_nc_budget_agent): it reads a request, runs handle_tools_call, and  *)
(* sends the response before it reads the next request.                    *)

Callers == {"c1", "c2"}

NoRequest == [id |-> 0, method |-> "", params |-> NoCall]
NoLine == [id |-> 0, error |-> FALSE, result |-> NoHandled.envelope]

\* each subsystem at rest: the state every specification starts from for the
\* subsystems it does not exercise
SessionsIdle ==
    sessions = NoSessions /\ now = 0 /\ gc_now = -1 /\ sm_log = 0 /\ sm_added = NoAdded
    /\ gc_removed = {}

\* start() has not been called
NotStarted == [pc |-> "idle", init_line |-> "unread"]

ClientIdle ==
    /\ agent_process = "none"
    /\ pipe_in = <<>>
    /\ pipe_out = <<>>
    /\ cl_pc = [c \in Callers |-> "idle"]
    /\ cl_request = [c \in Callers |-> NoRequest]
    /\ cl_line = [c \in Callers |-> NoLine]
    /\ cl_calls = 0
    /\ start_call = NotStarted
    /\ proc = "none"

\* AgentState.__init__ has run: nothing is loaded, the gate is clear and
\* the loader thread is about to start
GateIdle ==
    /\ loader_pc = "embedding"
    /\ rag_loaded = {}
    /\ rag_ready = FALSE
    /\ rag_pc = "idle"
    /\ rag_arguments = JNull
    /\ rag_envelope = NoHandled.envelope
    /\ rag_log = <<>>
    /\ rag_blocked = FALSE

ToolsIdle ==
    /\ tool_call = NoCall
    /\ tool_replies = DefaultReplies
    /\ tool_handled = NoHandled

\* api.py: no request has come in; the environment and the outcome of
\* startup_event are fixed when a specification starts
NoApiRequest == [n |-> 0, route |-> "", x_api_key |-> "", session_id |-> ""]

ApiIdle ==
    /\ api_key = "unset"
    /\ claude_system = "none"
    /\ api_pc = "idle"
    /\ api_request = NoApiRequest
    /\ api_status = 0
    /\ api_before = [sessions |-> NoSessions, calls |-> 0]

\* no function has been applied
NoFnCall == [fn |-> "", args |-> <<>>]

NoFnResult == [done |-> FALSE, val |-> <<>>]

FunctionsIdle ==
    /\ fn_call = NoFnCall
    /\ fn_result = NoFnResult

CsvNames ==
    {"vendor_data.csv", "Key value - Payment 1y.csv", "Key value - Payment 1ya.csv",
     "budget_data.csv", "budget2024.csv"}

\* open() of the file raises
MissingFile == [found |-> FALSE, rows |-> <<>>]

\* a database file that does not exist yet; `seq` is the table's entry in
\* sqlite_sequence (0: no entry)
NoDb == [exists |-> FALSE, rows |-> <<>>, seq |-> 0]

\* the script is not running
BuildOff == [pc |-> "off", run |-> 0, vendor |-> NoDb, budget |-> NoDb, ends |-> <<>>]

BuilderIdle ==
    /\ csv_files = [f \in CsvNames |-> MissingFile]
    /\ vendor_db = NoDb
    /\ budget_db = NoDb
    /\ build = BuildOff

\* `request` before its first assignment
Unbound == [json |-> "unbound"]

LoopIdle ==
    /\ stdin_lines = <<>>
    /\ stdout_lines = <<>>
    /\ loop_pc = "stopped"
    /\ loop_request = Unbound
    /\ loop_read = <<>>

\* claude_main.py: the initial_state of process_message.  The keys
\* sql_retry_count and query_error are read by the GraphNodes nodes with
\* .get(key, 0) and .get(key, ""), so an absent key reads as its default.
InitialState(user_message, session_id) ==
    [user_query |-> user_message,
     query_type |-> "",
     wants_visualization |-> FALSE,
     query_results |-> EmptyList,
     sql_query |-> EmptyStr,
     graph_data |-> EmptyStr,
     context_data |-> EmptyStr,
     final_answer |-> EmptyText,
     validation_warnings |-> <<>>,
     retry_count |-> 0,
     sql_retry_count |-> 0,
     query_error |-> EmptyStr,
     session_id |-> session_id]

\* a response_data that leaves the warnings out
ResponseData_no_warnings(answer, data, graph, sql_query, validation_warnings) ==
    [answer |-> answer, data |-> data, graph |-> graph, sql_query |-> sql_query,
     validation_warnings |-> <<>>]

\* response_data of process_message
ResponseData(answer, data, graph, sql_query, validation_warnings) ==
    [answer |-> answer, data |-> data, graph |-> graph, sql_query |-> sql_query,
     validation_warnings |-> validation_warnings]

NoResponse == ResponseData(EmptyText, JNull, JNull, JNull, <<>>)

\* the history of one process_message call: the classifier's reply, the
\* nodes that ran to their end, what the routing functions returned, the
\* number of add_exchange calls made, and the warnings that each
\* generate_response found in the state when it was entered
NoHistory ==
    [reply |-> LlmFails, nodes |-> <<>>, query_validate_route |-> <<>>,
     should_retry |-> <<>>, adds |-> 0, entered |-> <<>>]

Engines == {"claude_main", "graph_nodes"}

\* no process_message call has been made
FlowIdle ==
    /\ wf_engine = "claude_main"
    /\ wf_pc = "idle"
    /\ wf_state = InitialState(EmptyText, "")
    /\ wf_hist = [calls |-> 0, run |-> NoHistory]
    /\ wf_response = NoResponse


ToolsInit ==
    /\ ToolsIdle
    /\ SessionsIdle
    /\ ClientIdle
    /\ GateIdle
    /\ FlowIdle
    /\ ApiIdle
    /\ FunctionsIdle
    /\ BuilderIdle
    /\ LoopIdle

\* one tools/call, read when the worker is idle: the whole of
\* handle_tools_call
Serve(tool_name, arguments, replies) ==
    /\ tool_call' = [name |-> tool_name, arguments |-> arguments]
    /\ tool_replies' = replies
    /\ tool_handled' = handle_tools_call(tool_name, arguments, replies)
    /\ UNCHANGED <<smVars, clientVars, gateVars, flowVars, apiVars, fnVars, builderVars, loopVars>>

CallQueryVendorPayments ==
    /\ tool_call = NoCall
    /\ \E arguments \in DirectArguments, db_reply \in DbReplies :
           Serve("query_vendor_payments", arguments,
                 Replies(LlmFails, db_reply, DbFails, "raise"))

CallQueryBudget ==
    /\ tool_call = NoCall
    /\ \E arguments \in DirectArguments, db_reply \in DbReplies :
           Serve("query_budget", arguments,
                 Replies(LlmFails, db_reply, DbFails, "raise"))

CallCreateGraph ==
    /\ tool_call = NoCall
    /\ \E arguments \in GraphArguments, plot_reply \in PlotReplies :
           Serve("create_graph", arguments,
                 Replies(LlmFails, DbFails, DbFails, plot_reply))

CallQuerySql ==
    /\ tool_call = NoCall
    /\ \E arguments \in QuestionArguments, llm_reply \in LlmReplies,
          db_reply \in DbReplies, years_reply \in YearsReplies :
           /\ arguments # JDict([query |-> UserQuestion])
                  => Replies(llm_reply, db_reply, years_reply, "raise") = DefaultReplies
           /\ Serve("query_sql", arguments,
                    Replies(llm_reply, db_reply, years_reply, "raise"))

CallUnknownTool ==
    /\ tool_call = NoCall
    /\ \E arguments \in BadArguments :
           Serve("no_such_tool", arguments, DefaultReplies)

\* send_json: the response is written and the loop reads the next line
SendResponse ==
    /\ tool_call # NoCall
    /\ tool_call' = NoCall
    /\ tool_replies' = DefaultReplies
    /\ tool_handled' = NoHandled
    /\ UNCHANGED <<smVars, clientVars, gateVars, flowVars, apiVars, fnVars, builderVars, loopVars>>

ToolsNext ==
    \/ CallQueryVendorPayments
    \/ CallQueryBudget
    \/ CallCreateGraph
    \/ CallQuerySql
    \/ CallUnknownTool
    \/ SendResponse

SpecTools == ToolsInit /\ [][ToolsNext]_vars

\* the request being served is a query_sql call for which the planner
\* produced an SQL statement
QuerySqlPlanned ==
    /\ tool_call.name = "query_sql"
    /\ tool_call.arguments.t = "dict"
    /\ "query" \in DOMAIN tool_call.arguments.v
    /\ py_truthy(tool_call.arguments.v["query"])
    /\ tool_replies.llm.ok

\* the SQL statement of the plan of the request being served
PlannedSql == plan_query(tool_call.arguments.v["query"], tool_replies.llm).val.sql.v

\* C4: whenever the planner's SQL statement is judged unsafe by the blocking
\* validator sql_validator, the query_sql dispatch hands no such statement to
\* a database cursor and answers with an error envelope.
C4_UnsafeSqlRefused ==
    (QuerySqlPlanned /\ ~sql_validator(PlannedSql).is_safe)
        => /\ \A i \in 1..Len(tool_handled.executed) :
                  tool_handled.executed[i].sql # PlannedSql
           /\ tool_handled.envelope.isError

\* the request being served ran a direct query (its own or the planned one)
\* and that execution failed
ExecutionFailed ==
    \/ /\ tool_call.name \in {"query_vendor_payments", "query_budget"}
       /\ handle_direct_query("db", tool_call.arguments, tool_replies.db).envelope.isError
    \/ /\ QuerySqlPlanned
       /\ handle_direct_query("db", JDict([query |-> JStr(PlannedSql)]),
                              tool_replies.db).envelope.isError

\* C10: every call served ends with an envelope of exactly one text item;
\* a success envelope holds JSON, and whenever the arguments lack a required
\* key or the underlying execution failed the envelope has isError = true.
C10_UniformEnvelope ==
    tool_call # NoCall
        => LET envelope == tool_handled.envelope
           IN  /\ Len(envelope.content) = 1
               /\ envelope.content[1].type = "text"
               /\ ~envelope.isError => envelope.content[1].text.fmt = "json"
               /\ ExecutionFailed => envelope.isError

\* the text begins with SELECT once blanks are trimmed, in any letter case
BeginsWithSelect(sql) == str_startswith(str_upper(str_strip(sql)), "SELECT")

\* the request being served is one of the three query tools and carries an
\* SQL statement: the `query` argument of a direct tool, the planned
\* statement of query_sql
CarriesStatement ==
    \/ /\ tool_call.name \in {"query_vendor_payments", "query_budget"}
       /\ tool_call.arguments.t = "dict"
       /\ "query" \in DOMAIN tool_call.arguments.v
       /\ tool_call.arguments.v["query"].t = "str"
    \/ QuerySqlPlanned

StatementCarried ==
    IF tool_call.name = "query_sql" THEN PlannedSql
    ELSE tool_call.arguments.v["query"].v

\* C30: every statement a tool hands to a database cursor begins with
\* SELECT, and a call of query_vendor_payments, query_budget or query_sql
\* whose statement does not begin with SELECT ends with an error envelope.
C30_OnlySelectReachesEngine ==
    tool_call # NoCall
        => /\ \A i \in 1..Len(tool_handled.executed) :
                  BeginsWithSelect(tool_handled.executed[i].sql)
           /\ (CarriesStatement /\ ~BeginsWithSelect(StatementCarried))
                  => tool_handled.envelope.isError

-----------------------------------------------------------------------------
(* The agent client and the worker's request loop.  Callers are threads of *)
(* the server process that share one MCPAgentClient; the client holds no   *)
(* lock, so a caller's write to stdin and its readline from stdout are     *)
(* separate steps.  The worker reads one line, handles it and writes one   *)
(* line.  Tools that wait on the readiness gate are served here with the   *)
(* gate already set.  The constructor of ClaudeAgentSystem starts the      *)
(* client before any caller can reach it, so callers come after start().   *)

\* agent_client.py: the request built by call_tool; uuid4 ids are modelled by
\* a serial number
ToolRequest(id, tool_name, arguments) ==
    [id |-> id, method |-> "tools/call",
     params |-> [name |-> tool_name, arguments |-> arguments]]

\* nc_budget_agent.py: the response line for one well-formed request line
ServerResponse(request, replies) ==
    IF request.method = "tools/call"
    THEN [id |-> request.id, error |-> FALSE,
          result |-> handle_tools_call(request.params.name,
                                       request.params.arguments, replies).envelope]
    ELSE IF request.method = "tools/list"
    THEN [id |-> request.id, error |-> FALSE, result |-> [tools |-> "all"]]
    ELSE [id |-> request.id, error |-> FALSE,
          result |-> [error |-> [code |-> -32601, message |-> request.method]]]

\* agent_client.py: _send_request from the response line on
_send_request(line) ==
    IF line.error THEN Raise(<<"Agent error">>, <<>>)
    ELSE Return(line.result, <<>>)

\* agent_client.py: call_tool from the response line on
call_tool(line) ==
    LET result == _send_request(line)
    IN  IF result.raised THEN result
        ELSE IF "content" \in DOMAIN result.val /\ Len(result.val.content) > 0
        THEN json_loads(result.val.content[1].text)
        ELSE result

\* the calls the callers make and what the outside world answers to each
ClientCalls ==
    {[name |-> "query_sql", arguments |-> JDict([query |-> UserQuestion]),
      replies |-> Replies(LlmSays(<<"SELECT">>), DbRows(JList(<<RowPaid>>, 0)),
                          DbFails, "raise")],
     [name |-> "query_sql", arguments |-> JDict([query |-> UserQuestion]),
      replies |-> DefaultReplies],
     [name |-> "query_budget_context", arguments |-> JDict([query |-> UserQuestion]),
      replies |-> DefaultReplies]}

ClientInit ==
    /\ ClientIdle
    /\ SessionsIdle
    /\ ToolsIdle
    /\ GateIdle
    /\ FlowIdle
    /\ ApiIdle
    /\ FunctionsIdle
    /\ BuilderIdle
    /\ LoopIdle

\* what readline returns for the first line of a launched worker: the
\* greeting sent by run_nc_budget_agent, nothing (the worker ended before it
\* wrote), a line that is not JSON, a JSON text that is not an object
InitLines == {"greeting", "", "not json", "[]"}

\* the handshake whose except branch forgets to give up the process
handshake_keeps_process(init_line) ==
    IF init_line = "greeting"
    THEN [raised |-> FALSE, agent_process |-> "running", proc |-> "alive"]
    ELSE [raised |-> TRUE, agent_process |-> "running", proc |-> "alive"]

\* MCPAgentClient.start from the first readline on: `if not init_line`
\* raises, json.loads raises on a line that is not JSON, init_msg.get raises
\* on a JSON value that is not an object; the except branch terminates the
\* process, sets agent_process to None and raises again
handshake(init_line) ==
    IF init_line = "greeting"
    THEN [raised |-> FALSE, agent_process |-> "running", proc |-> "alive"]
    ELSE [raised |-> TRUE, agent_process |-> "none", proc |-> "terminated"]

\* MCPAgentClient.start on a client that holds a process: nothing happens
StartAgain ==
    /\ start_call.pc # "handshake"
    /\ agent_process # "none"
    /\ start_call' = [start_call EXCEPT !.pc = "returned"]
    /\ UNCHANGED <<agent_process, proc, pipe_in, pipe_out, cl_pc, cl_request,
                   cl_line, cl_calls>>
    /\ UNCHANGED <<smVars, toolVars, gateVars, flowVars, apiVars, fnVars, builderVars, loopVars>>

\* MCPAgentClient.start up to the handshake: subprocess.Popen returns the
\* process, or raises and start raises with it
Spawn ==
    /\ start_call.pc # "handshake"
    /\ agent_process = "none"
    /\ \/ /\ agent_process' = "running"
          /\ proc' = "alive"
          /\ start_call' = [pc |-> "handshake", init_line |-> "unread"]
       \/ /\ start_call' = [pc |-> "raised", init_line |-> "unread"]
          /\ UNCHANGED <<agent_process, proc>>
    /\ UNCHANGED <<pipe_in, pipe_out, cl_pc, cl_request, cl_line, cl_calls>>
    /\ UNCHANGED <<smVars, toolVars, gateVars, flowVars, apiVars, fnVars, builderVars, loopVars>>

\* MCPAgentClient.start, the handshake
Handshake ==
    /\ start_call.pc = "handshake"
    /\ \E init_line \in InitLines :
          LET out == handshake(init_line)
          IN  /\ agent_process' = out.agent_process
              /\ proc' = out.proc
              /\ start_call' = [pc |-> IF out.raised THEN "raised" ELSE "returned",
                                init_line |-> init_line]
    /\ UNCHANGED <<pipe_in, pipe_out, cl_pc, cl_request, cl_line, cl_calls>>
    /\ UNCHANGED <<smVars, toolVars, gateVars, flowVars, apiVars, fnVars, builderVars, loopVars>>

\* call_tool up to stdin.flush(): the request line is in the pipe
WriteRequest(c) ==
    /\ cl_pc[c] = "idle"
    /\ start_call.pc = "returned"
    /\ agent_process = "running"
    /\ cl_calls < MaxCalls
    /\ \E call \in ClientCalls :
          LET request == ToolRequest(cl_calls + 1, call.name, call.arguments)
          IN  /\ cl_request' = [cl_request EXCEPT ![c] = request]
              /\ pipe_in' = Append(pipe_in, [request |-> request,
                                             replies |-> call.replies])
    /\ cl_pc' = [cl_pc EXCEPT ![c] = "written"]
    /\ cl_calls' = cl_calls + 1
    /\ UNCHANGED <<agent_process, pipe_out, cl_line, start_call, proc>>
    /\ UNCHANGED <<smVars, toolVars, gateVars, flowVars, apiVars, fnVars, builderVars, loopVars>>

\* methods other than tools/call that a request can name
OtherMethods == {"tools/list", "resources/list", "initialize", ""}

\* _send_request up to stdin.flush(), called with a request that names
\* another method than tools/call
SendRequest(c) ==
    /\ cl_pc[c] = "idle"
    /\ start_call.pc = "returned"
    /\ agent_process = "running"
    /\ cl_calls < MaxCalls
    /\ \E method \in OtherMethods :
          LET request == [id |-> cl_calls + 1, method |-> method, params |-> NoCall]
          IN  /\ cl_request' = [cl_request EXCEPT ![c] = request]
              /\ pipe_in' = Append(pipe_in, [request |-> request,
                                             replies |-> DefaultReplies])
    /\ cl_pc' = [cl_pc EXCEPT ![c] = "written"]
    /\ cl_calls' = cl_calls + 1
    /\ UNCHANGED <<agent_process, pipe_out, cl_line, start_call, proc>>
    /\ UNCHANGED <<smVars, toolVars, gateVars, flowVars, apiVars, fnVars, builderVars, loopVars>>

\* run_nc_budget_agent: one turn of the request loop
WorkerServe ==
    /\ pipe_in # <<>>
    /\ pipe_out' = Append(pipe_out,
                          ServerResponse(Head(pipe_in).request, Head(pipe_in).replies))
    /\ pipe_in' = Tail(pipe_in)
    /\ UNCHANGED <<agent_process, cl_pc, cl_request, cl_line, cl_calls, start_call, proc>>
    /\ UNCHANGED <<smVars, toolVars, gateVars, flowVars, apiVars, fnVars, builderVars, loopVars>>

\* stdout.readline() returns the next response line
ReadResponse(c) ==
    /\ cl_pc[c] = "written"
    /\ pipe_out # <<>>
    /\ cl_line' = [cl_line EXCEPT ![c] = Head(pipe_out)]
    /\ pipe_out' = Tail(pipe_out)
    /\ cl_pc' = [cl_pc EXCEPT ![c] = "returned"]
    /\ UNCHANGED <<agent_process, pipe_in, cl_request, cl_calls, start_call, proc>>
    /\ UNCHANGED <<smVars, toolVars, gateVars, flowVars, apiVars, fnVars, builderVars, loopVars>>

\* the caller goes on with the value of call_tool and may call again
CallerContinues(c) ==
    /\ cl_pc[c] = "returned"
    /\ cl_pc' = [cl_pc EXCEPT ![c] = "idle"]
    /\ cl_request' = [cl_request EXCEPT ![c] = NoRequest]
    /\ cl_line' = [cl_line EXCEPT ![c] = NoLine]
    /\ UNCHANGED <<agent_process, pipe_in, pipe_out, cl_calls, start_call, proc>>
    /\ UNCHANGED <<smVars, toolVars, gateVars, flowVars, apiVars, fnVars, builderVars, loopVars>>

ClientNext ==
    \/ Spawn
    \/ Handshake
    \/ StartAgain
    \/ \E c \in Callers : WriteRequest(c)
    \/ \E c \in Callers : SendRequest(c)
    \/ WorkerServe
    \/ \E c \in Callers : ReadResponse(c)
    \/ \E c \in Callers : CallerContinues(c)

SpecClient == ClientInit /\ [][ClientNext]_vars

\* requests written to the worker whose response line no caller has read yet
InFlight == {c \in Callers : cl_pc[c] = "written"}

\* C5: at any moment at most one request has been written without its
\* response line having been read, and a caller whose readline returned holds
\* the response line made for the request that caller wrote.
C5_OneInFlight ==
    /\ Cardinality(InFlight) <= 1
    /\ \A c \in Callers : cl_pc[c] = "returned" => cl_line[c].id = cl_request[c].id

\* C11: a caller whose readline returned the response line made for its own
\* request, a request whose method is neither tools/list nor tools/call,
\* holds a line with a top-level error member of code -32601 and no result
\* member, so _send_request raises for it.
C11_MethodNotFound ==
    \A c \in Callers :
        (/\ cl_pc[c] = "returned"
         /\ cl_line[c].id = cl_request[c].id
         /\ cl_request[c].method \notin {"tools/list", "tools/call"})
            => /\ cl_line[c].error
               /\ _send_request(cl_line[c]).raised

\* C12: when the first line read from a newly launched worker is missing or
\* is not valid JSON, start() has terminated the subprocess, left
\* agent_process at None and raised; and whenever start() is not in progress
\* the client holds a process exactly if that process is alive.
C12_FailedHandshakeIsFatal ==
    /\ start_call.init_line \in {"", "not json"}
           => /\ start_call.pc = "raised"
              /\ agent_process = "none"
              /\ proc = "terminated"
    /\ start_call.pc # "handshake"
           => (agent_process = "running" <=> proc = "alive")

\* C12 witness: the worker wrote a line that is not JSON; start() raised
\* and the client is back in the not-started state.
C12_Witness ==
    /\ start_call = [pc |-> "raised", init_line |-> "not json"]
    /\ agent_process = "none"
    /\ proc = "terminated"

-----------------------------------------------------------------------------
(* The RAG readiness gate of the worker.  AgentState.__init__ starts a     *)
(* daemon thread that loads the embedding model, the reranker, the vector  *)
(* store client and the RAG language model one after the other and then    *)
(* sets the gate.  A load that raises ends the thread.  The request loop   *)
(* runs beside it; handle_query_budget_context waits on the gate.          *)

RagModels == {"_embedding_model", "_reranker", "_chroma_client"}

\* one assignment of _load_rag_models; the constructor on its right-hand
\* side returns or raises
Load(step, attribute, next) ==
    /\ loader_pc = step
    /\ \/ /\ rag_loaded' = rag_loaded \cup {attribute}
          /\ loader_pc' = next
       \/ /\ loader_pc' = "crashed"
          /\ UNCHANGED rag_loaded
    /\ UNCHANGED <<rag_ready, rag_pc, rag_arguments, rag_envelope, rag_log,
                   rag_blocked>>
    /\ UNCHANGED <<smVars, toolVars, clientVars, flowVars, apiVars, fnVars, builderVars, loopVars>>

LoadEmbeddingModel == Load("embedding", "_embedding_model", "reranker")

LoadReranker == Load("reranker", "_reranker", "chroma")

LoadChromaClient == Load("chroma", "_chroma_client", "llm")

LoadLlmForRag == Load("llm", "_llm_for_rag", "set")

\* self._rag_ready.set()
SetReady ==
    /\ loader_pc = "set"
    /\ rag_ready' = TRUE
    /\ loader_pc' = "done"
    /\ UNCHANGED <<rag_loaded, rag_pc, rag_arguments, rag_envelope, rag_log,
                   rag_blocked>>
    /\ UNCHANGED <<smVars, toolVars, clientVars, flowVars, apiVars, fnVars, builderVars, loopVars>>

\* a wait that returns whether or not the gate is set
wait_skipped(ready) == TRUE

\* agent_state._rag_ready.wait() returns
wait_returns(ready) == ready

\* handle_query_budget_context up to the wait: without a query it answers
\* at once, otherwise it starts to wait
RagRequest ==
    /\ rag_pc = "idle"
    /\ tool_call = NoCall
    /\ Len(rag_log) < MaxRagCalls
    /\ \E arguments \in QuestionArguments :
          /\ rag_arguments' = arguments
          /\ IF RagQueryMissing(arguments)
             THEN /\ rag_pc' = "answered"
                  /\ rag_envelope' = handle_query_budget_context(arguments).envelope
                  /\ rag_blocked' = FALSE
             ELSE /\ rag_pc' = "waiting"
                  /\ rag_blocked' = ~rag_ready
                  /\ UNCHANGED rag_envelope
    /\ UNCHANGED <<loader_pc, rag_loaded, rag_ready, rag_log>>
    /\ UNCHANGED <<smVars, toolVars, clientVars, flowVars, apiVars, fnVars, builderVars, loopVars>>

\* the wait is over: the handler calls the RAG function and builds its
\* envelope
RagProceed ==
    /\ rag_pc = "waiting"
    /\ wait_returns(rag_ready)
    /\ rag_log' = Append(rag_log, [ready |-> rag_ready, loaded |-> rag_loaded])
    /\ rag_envelope' = handle_query_budget_context(rag_arguments).envelope
    /\ rag_pc' = "answered"
    /\ UNCHANGED <<loader_pc, rag_loaded, rag_ready, rag_arguments, rag_blocked>>
    /\ UNCHANGED <<smVars, toolVars, clientVars, flowVars, apiVars, fnVars, builderVars, loopVars>>

\* the response is sent and the loop reads the next request
RagRespond ==
    /\ rag_pc = "answered"
    /\ rag_pc' = "idle"
    /\ rag_arguments' = JNull
    /\ rag_envelope' = NoHandled.envelope
    /\ UNCHANGED <<loader_pc, rag_loaded, rag_ready, rag_log, rag_blocked>>
    /\ UNCHANGED <<smVars, toolVars, clientVars, flowVars, apiVars, fnVars, builderVars, loopVars>>

\* calls of the tools that do not wait on the gate
UngatedCalls ==
    {call \in ClientCalls : call.name # "query_budget_context"}
    \cup {[name |-> "create_graph",
           arguments |-> JDict([results |-> JList(<<RowPaid>>, 3),
                                query |-> JStr(<<"SELECT">>)]),
           replies |-> Replies(LlmFails, DbFails, DbFails, "image")],
          [name |-> "query_vendor_payments",
           arguments |-> JDict([query |-> JStr(<<"SELECT">>)]),
           replies |-> Replies(LlmFails, DbRows(JList(<<RowPaid>>, 0)), DbFails, "raise")]}

\* the loop serves a tool that does not need the gate, whatever the loader
\* is doing
ServeWithoutGate ==
    /\ rag_pc = "idle"
    /\ tool_call = NoCall
    /\ \E call \in UngatedCalls :
          Serve(call.name, call.arguments, call.replies)

GateInit ==
    /\ GateIdle
    /\ SessionsIdle
    /\ ToolsIdle
    /\ ClientIdle
    /\ FlowIdle
    /\ ApiIdle
    /\ FunctionsIdle
    /\ BuilderIdle
    /\ LoopIdle

GateNext ==
    \/ LoadEmbeddingModel
    \/ LoadReranker
    \/ LoadChromaClient
    \/ LoadLlmForRag
    \/ SetReady
    \/ RagRequest
    \/ RagProceed
    \/ RagRespond
    \/ ServeWithoutGate
    \/ SendResponse

SpecGate == GateInit /\ [][GateNext]_vars

\* the steps of the request loop that wait for no one but the gate
ServerProgress ==
    \/ RagProceed
    \/ RagRespond
    \/ SendResponse

\* the steps of the loader thread
LoaderSteps ==
    \/ LoadEmbeddingModel
    \/ LoadReranker
    \/ LoadChromaClient
    \/ LoadLlmForRag
    \/ SetReady

\* the worker with both of its threads scheduled: the request loop and the
\* loader thread each take their next step when they can
SpecGateFair ==
    /\ GateInit
    /\ [][GateNext]_vars
    /\ WF_vars(ServerProgress)
    /\ WF_vars(LoaderSteps)

\* C29: every query_budget_context call that reaches the wait on the gate
\* is answered in the end, also when a load raised in the loader thread
\* before the gate was set; the request loop does not stay in the wait.
C29_ContextCallAnswered == (rag_pc = "waiting") ~> (rag_pc = "answered")

\* C6: the gate is set only when the embedding model, the reranker and the
\* vector-store client are loaded, and every call of the RAG function by
\* handle_query_budget_context was made with the gate set; until then the
\* handler is waiting, not answering.
C6_GateBeforeRag ==
    /\ rag_ready => RagModels \subseteq rag_loaded
    /\ \A i \in 1..Len(rag_log) :
          rag_log[i].ready /\ RagModels \subseteq rag_log[i].loaded
    /\ (rag_pc = "answered" /\ ~RagQueryMissing(rag_arguments)) => rag_ready

\* C6 witness: a request that arrived before the gate was set has been
\* answered after the loader set it.
C6_Witness ==
    /\ loader_pc = "done"
    /\ rag_pc = "answered"
    /\ rag_blocked
    /\ Len(rag_log) = 1
    /\ rag_log[1].ready
    /\ rag_envelope.isError

-----------------------------------------------------------------------------
(* The orchestration workflow.  ClaudeAgentSystem (claude_main.py) builds  *)
(* the graph it runs in _build_graph; GraphNodes (graph_nodes.py) holds    *)
(* the nodes and routing functions of the graph with the query gate, whose *)
(* wiring is taken from the description of the Orchestration Engine.       *)
(* route_question, generate_response, create_graph, query_budget_context,  *)
(* handle_general and should_retry have the same body in both files.       *)

MAX_RETRIES == 2
MAX_SQL_RETRIES == 2

\* `len(results) > 4`
visualize_rows == 4

\* all_history[-4:]
history_window == 4

(* The classifier's reply.  The text is modelled as its lines (the parts    *)
(* between '\n') and each line as its fields (the parts between ':'), so a *)
(* reply is what split('\n') and split(':') make of it.  A field is one of *)
(* the words below; the tables give lower(), strip() and the substring     *)
(* tests of each.                                                          *)

ReplyFields ==
    {"category", "Category", " category", "visualization", " database",
     " Database", " context", " general", " sql", " yes", " no", "note", "hello", ""}

\* field.lower()
FieldLower(f) ==
    CASE f = "Category" -> "category"
      [] f = " Database" -> " database"
      [] OTHER -> f

\* field.strip(); no field ends in whitespace
FieldStrip(f) ==
    CASE f = " category" -> "category"
      [] f = " database" -> "database"
      [] f = " Database" -> "Database"
      [] f = " context" -> "context"
      [] f = " general" -> "general"
      [] f = " sql" -> "sql"
      [] f = " yes" -> "yes"
      [] f = " no" -> "no"
      [] OTHER -> f

\* field.endswith(word)
FieldEndsWith(f, word) ==
    \/ f = word
    \/ <<f, word>> \in {<<" category", "category">>}

\* `'yes' in field`
FieldHasYes(f) == f \in {"yes", " yes"}

\* response.content.strip().lower(): the strip takes the whitespace off the
\* head of the first line and the tail of the last one
text_strip_lower(lines) ==
    [i \in 1..Len(lines) |->
        [j \in 1..Len(lines[i]) |->
            IF i = 1 /\ j = 1 THEN FieldStrip(FieldLower(lines[i][j]))
            ELSE FieldLower(lines[i][j])]]

\* `'category:' in line`: some field that a colon follows ends with the word
LineHas(line, word) ==
    \E j \in 1..(Len(line) - 1) : FieldEndsWith(line[j], word)

\* route_question: the loop over the lines of the reply
RECURSIVE ParseReply(_, _, _)
ParseReply(lines, query_type, wants_viz) ==
    IF lines = <<>> THEN [query_type |-> query_type, wants_viz |-> wants_viz]
    ELSE LET line == Head(lines)
         IN  IF LineHas(line, "category")
             THEN ParseReply(Tail(lines), FieldStrip(line[2]), wants_viz)
             ELSE IF LineHas(line, "visualization")
             THEN ParseReply(Tail(lines), query_type, FieldHasYes(FieldStrip(line[2])))
             ELSE ParseReply(Tail(lines), query_type, wants_viz)

\* route_question; llm_reply is what self.llm.invoke does
route_question(state, llm_reply) ==
    LET parsed == ParseReply(text_strip_lower(llm_reply.content), "general", FALSE)
    IN  IF ~llm_reply.ok THEN Raise(<<"APIError">>, <<>>)
        ELSE Return([state EXCEPT !.query_type = parsed.query_type,
                                  !.wants_visualization = parsed.wants_viz], <<>>)

\* the conditional edges of route_question in _build_graph
QueryTypeBranches ==
    [database |-> "query_sql", context |-> "query_budget_context",
     general |-> "handle_general"]

\* claude_main.py: route_by_type
route_by_type(state) == state.query_type

ToolResult(success, result, error) ==
    [success |-> success, result |-> result, error |-> error]

\* d.get(key, default) of a parsed JSON object
DictGet(d, key, default) ==
    IF key \in DOMAIN d.v THEN d.v[key] ELSE default

\* the user's message as the "query" argument of a tool
QueryArgument(user_query) ==
    IF IsEmptyText(user_query) THEN EmptyStr ELSE UserQuestion

\* _call_agent_tool of ClaudeAgentSystem and of GraphNodes, up to
\* agent.call_tool: the arguments of the call; all_history is what
\* session_manager.get_messages_dict returned
ToolArguments(engine, tool_name, tool_input, all_history) ==
    LET chat_history == JList(LastN(all_history, history_window), 0)
    IN  CASE tool_name = "query_sql" /\ engine = "graph_nodes" ->
                 JDict([query |-> tool_input.query,
                        chat_history |-> chat_history,
                        previous_sql |-> tool_input.previous_sql,
                        sql_warnings |-> EmptyList])
          [] tool_name = "query_sql" /\ engine # "graph_nodes" ->
                 JDict([query |-> tool_input.query,
                        chat_history |-> chat_history])
          [] tool_name = "create_graph" ->
                 JDict([results |-> tool_input.data,
                        query |-> tool_input.sql_query,
                        title |-> JNull,
                        chat_history |-> chat_history])
          [] OTHER ->
                 JDict([query |-> tool_input.query,
                        chat_history |-> chat_history])

\* the tool_input each node hands to _call_agent_tool
ToolInput(node, state) ==
    CASE node = "query_sql" ->
             [query |-> QueryArgument(state.user_query),
              previous_sql |-> state.sql_query]
      [] node = "create_graph" ->
             [data |-> state.query_results, sql_query |-> state.sql_query]
      [] OTHER ->
             [query |-> QueryArgument(state.user_query)]

\* _call_agent_tool from agent.call_tool on; `called` is what call_tool
\* returned or raised
_call_agent_tool(engine, tool_name, called) ==
    LET blocked ==
            /\ engine = "graph_nodes"
            /\ called.val.t = "dict"
            /\ "explanation" \in DOMAIN called.val.v
            /\ str_contains(str_lower(called.val.v["explanation"].v),
                            "blocked for safety")
    IN  IF tool_name \notin {"query_sql", "create_graph", "query_budget_context"}
        THEN ToolResult(FALSE, JNull, <<"Unknown tool: ", tool_name>>)
        ELSE IF called.raised THEN ToolResult(FALSE, JNull, called.err)
        ELSE IF blocked THEN ToolResult(FALSE, JNull, called.val.v["explanation"].v)
        ELSE ToolResult(TRUE, called.val, <<>>)

\* claude_main.py: query_sql
CM_query_sql(state, called) ==
    LET result == _call_agent_tool("claude_main", "query_sql", called)
    IN  IF result.success /\ result.result.t = "dict"
        THEN [state EXCEPT
                 !.query_results = DictGet(result.result, "results", EmptyList),
                 !.sql_query = DictGet(result.result, "query", EmptyStr)]
        ELSE state

\* graph_nodes.py: query_sql
GN_query_sql(state, called) ==
    LET counted == IF py_truthy(state.sql_query)
                   THEN [state EXCEPT !.sql_retry_count = @ + 1]
                   ELSE state
        result == _call_agent_tool("graph_nodes", "query_sql", called)
    IN  IF result.success
        THEN (IF result.result.t = "dict"
              THEN [counted EXCEPT
                       !.query_results = DictGet(result.result, "results", EmptyList),
                       !.sql_query = DictGet(result.result, "query", EmptyStr),
                       !.query_error = EmptyStr]
              ELSE counted)
        ELSE [counted EXCEPT !.query_error = JStr(result.error)]

\* graph_nodes.py: validate_query
validate_query(state) ==
    [state EXCEPT !.validation_warnings =
        validate_query_results(state.query_results, state.sql_query,
                               state.query_error)]

\* `[w for w in warnings if tag in w]`
WithTag(warnings, tags) == SelectSeq(warnings, LAMBDA w : w.tag \in tags)

\* a routing that allows one retry too many
query_validate_route_late(state) ==
    IF WithTag(state.validation_warnings, {"QUERY_FAILED"}) # <<>> THEN "continue"
    ELSE IF /\ WithTag(state.validation_warnings, {"EMPTY_RESULTS"}) # <<>>
            /\ state.sql_retry_count <= MAX_SQL_RETRIES
    THEN "retry_query"
    ELSE "continue"

\* graph_nodes.py: query_validate_route
query_validate_route(state) ==
    IF WithTag(state.validation_warnings, {"QUERY_FAILED"}) # <<>> THEN "continue"
    ELSE IF /\ WithTag(state.validation_warnings, {"EMPTY_RESULTS"}) # <<>>
            /\ state.sql_retry_count < MAX_SQL_RETRIES
    THEN "retry_query"
    ELSE "continue"

\* claude_main.py: should_visualize
should_visualize(state) ==
    IF state.wants_visualization \/ py_len(state.query_results) > visualize_rows
    THEN "visualize"
    ELSE "respond"

\* graph_nodes.py: route_after_gate
route_after_gate(state) ==
    IF py_truthy(state.query_error) THEN "blocked"
    ELSE IF state.wants_visualization \/ py_len(state.query_results) > visualize_rows
    THEN "visualize"
    ELSE "respond"

\* create_graph
create_graph(engine, state, called) ==
    LET result == _call_agent_tool(engine, "create_graph", called)
    IN  IF result.success /\ result.result.t = "dict"
        THEN [state EXCEPT !.graph_data = DictGet(result.result, "graph", JNull)]
        ELSE state

\* json.dumps of the object the context tool handed back: a text that is
\* never empty
json_dumps(val) ==
    IF val.t = "dict" /\ "error" \in DOMAIN val.v
    THEN JStr(<<"{\"error\": ">> \o val.v["error"].v \o <<"}">>)
    ELSE JStr(<<"{...}">>)

\* query_budget_context
query_budget_context(engine, state, called) ==
    LET result == _call_agent_tool(engine, "query_budget_context", called)
    IN  IF result.success /\ result.result.t = "str"
        THEN [state EXCEPT !.context_data = result.result]
        ELSE IF result.success /\ result.result.t = "dict"
        THEN [state EXCEPT !.context_data = json_dumps(result.result)]
        ELSE state

GroundingTags == {"DATA_GROUNDING", "CONTEXT_GROUNDING"}

\* what self.llm.invoke does for an answer: it raises or returns a text
AnswerFails == [ok |-> FALSE, content |-> EmptyText]
AnswerSays(content) == [ok |-> TRUE, content |-> content]

\* generate_response
generate_response(state, llm_reply) ==
    LET counted == IF state.validation_warnings # <<>>
                   THEN [state EXCEPT !.retry_count = @ + 1,
                                      !.validation_warnings = <<>>]
                   ELSE state
    IN  IF ~llm_reply.ok THEN Raise(<<"APIError">>, <<>>)
        ELSE Return([counted EXCEPT !.final_answer = llm_reply.content], <<>>)

\* handle_general
handle_general(state, llm_reply) ==
    IF ~llm_reply.ok THEN Raise(<<"APIError">>, <<>>)
    ELSE Return([state EXCEPT !.final_answer = llm_reply.content], <<>>)

(* The fact-check reply of the model: it raises, or answers with lines,    *)
(* each of which is "VALID" in some letter case, a line that starts with   *)
(* 'HALLUCINATION:', or some other text.                                   *)

CheckLines == {"VALID", "valid", "HALLUCINATION: x | CORRECT: y", "not sure"}

\* line.upper()
CheckUpper(line) ==
    CASE line = "valid" -> "VALID"
      [] line = "not sure" -> "NOT SURE"
      [] OTHER -> line

\* the shared body of validate_data_grounding and validate_context_grounding
validate_grounding(tag, final_answer, data, check_reply) ==
    LET lines == check_reply.content
        hallucinations ==
            SelectSeq(lines, LAMBDA l : l = "HALLUCINATION: x | CORRECT: y")
    IN  IF IsEmptyText(final_answer) \/ ~py_truthy(data) THEN <<>>
        ELSE IF ~check_reply.ok
        THEN <<Warning(tag, "failed", 0, <<"APIError">>)>>
        ELSE IF Len(lines) = 1 /\ CheckUpper(lines[1]) = "VALID" THEN <<>>
        ELSE [i \in 1..Len(hallucinations) |->
                 Warning(tag, "hallucination", i, <<hallucinations[i]>>)]

\* answer_validator.py: validate_data_grounding
validate_data_grounding(final_answer, query_results, sql_query, check_reply) ==
    validate_grounding("DATA_GROUNDING", final_answer, query_results, check_reply)

\* answer_validator.py: validate_context_grounding
validate_context_grounding(final_answer, context_data, check_reply) ==
    validate_grounding("CONTEXT_GROUNDING", final_answer, context_data, check_reply)

\* the grounding checks shared by both validate_answer nodes
GroundingWarnings(state, data_reply, context_reply) ==
    (IF py_truthy(state.query_results) /\ ~IsEmptyText(state.final_answer)
     THEN validate_data_grounding(state.final_answer, state.query_results,
                                  state.sql_query, data_reply)
     ELSE <<>>)
    \o (IF py_truthy(state.context_data) /\ ~IsEmptyText(state.final_answer)
        THEN validate_context_grounding(state.final_answer, state.context_data,
                                        context_reply)
        ELSE <<>>)

\* claude_main.py: validate_answer.  The file imports validate_query_results
\* from answer_validator, which does not define it; the name is resolved to
\* its one definition, in sql_validator.py.
CM_validate_answer(state, data_reply, context_reply) ==
    [state EXCEPT !.validation_warnings =
        (IF py_truthy(state.query_results)
         THEN validate_query_results(state.query_results, state.sql_query, EmptyStr)
         ELSE <<>>)
        \o GroundingWarnings(state, data_reply, context_reply)]

\* graph_nodes.py: validate_answer
GN_validate_answer(state, data_reply, context_reply) ==
    [state EXCEPT !.validation_warnings =
        state.validation_warnings
        \o GroundingWarnings(state, data_reply, context_reply)]

\* a routing that allows one retry too many
should_retry_late(state) ==
    IF /\ WithTag(state.validation_warnings, GroundingTags) # <<>>
       /\ state.retry_count <= MAX_RETRIES
    THEN "retry"
    ELSE "done"

\* should_retry
should_retry(state) ==
    IF /\ WithTag(state.validation_warnings, GroundingTags) # <<>>
       /\ state.retry_count < MAX_RETRIES
    THEN "retry"
    ELSE "done"

\* claude_main.py: _build_graph, read as the node that follows `node` when it
\* ends in `state`.  A routing function that returns a key the edge map does
\* not hold makes graph.invoke raise.
_build_graph(node, state) ==
    CASE node = "route_question" ->
             IF route_by_type(state) \in DOMAIN QueryTypeBranches
             THEN QueryTypeBranches[route_by_type(state)]
             ELSE "raised"
      [] node = "query_sql" ->
             IF should_visualize(state) = "visualize" THEN "create_graph"
             ELSE "generate_response"
      [] node = "create_graph" -> "generate_response"
      [] node = "query_budget_context" -> "generate_response"
      [] node = "handle_general" -> "END"
      [] node = "generate_response" -> "validate_answer"
      [] node = "validate_answer" ->
             IF should_retry(state) = "retry" THEN "generate_response" ELSE "END"

\* the graph of the GraphNodes nodes, as the Orchestration Engine is
\* described: query_sql -> validate_query -> (retry_query: query_sql,
\* continue: route_visualization) -> (blocked: END, visualize: create_graph,
\* respond: generate_response), the rest as in _build_graph
OrchestrationEngine(node, state) ==
    CASE node = "query_sql" -> "validate_query"
      [] node = "validate_query" ->
             IF query_validate_route(state) = "retry_query" THEN "query_sql"
             ELSE "route_visualization"
      [] node = "route_visualization" ->
             (CASE route_after_gate(state) = "blocked" -> "END"
                [] route_after_gate(state) = "visualize" -> "create_graph"
                [] OTHER -> "generate_response")
      [] OTHER -> _build_graph(node, state)

\* the node that follows `node` in the graph of the engine
NextNode(engine, node, state) ==
    IF engine = "claude_main" THEN _build_graph(node, state)
    ELSE OrchestrationEngine(node, state)

-----------------------------------------------------------------------------
(* The inputs of the workflow: the replies of the classifier, of the model *)
(* that writes and checks answers, and the worlds around each tool call.   *)

ClassifierReplies ==
    {LlmFails,
     LlmSays(<<<<"category", " database">>, <<"visualization", " yes">>>>),
     LlmSays(<<<<"category", " database">>, <<"visualization", " no">>>>),
     LlmSays(<<<<"Category", " Database">>, <<"visualization", " no">>>>),
     LlmSays(<<<<"category", " context">>, <<"visualization", " no">>>>),
     LlmSays(<<<<"category", " general">>, <<"visualization", " no">>>>),
     LlmSays(<<<<"category", " sql">>, <<"visualization", " no">>>>),
     LlmSays(<<<<"note", " category", " database">>>>),
     LlmSays(<<<<"hello">>>>),
     LlmSays(<<<<"">>>>)}

\* lengths of the answers tried: empty, short, over the session's limit
AnswerLens == {0, 10, max_chars + 1}

AnswerReplies(n) == {AnswerFails} \cup {AnswerSays(Text("a", n, len)) : len \in AnswerLens}

CheckReplies ==
    {[ok |-> FALSE, content |-> <<>>],
     [ok |-> TRUE, content |-> <<"valid">>],
     [ok |-> TRUE, content |-> <<"HALLUCINATION: x | CORRECT: y">>],
     [ok |-> TRUE, content |-> <<"not sure">>]}

\* what the SQL model, the databases and matplotlib answer during the tool
\* call of a node
WorldReplies(node) ==
    CASE node = "query_sql" ->
             {DefaultReplies}
             \cup {Replies(LlmSays(<<"SELECT">>), db_reply, DbFails, "raise") :
                     db_reply \in {DbFails, DbRows(EmptyList),
                                   DbRows(JList(<<RowPaid>>, 0)),
                                   DbRows(JList(<<RowPaid>>, visualize_rows)),
                                   DbRows(JList(<<RowNegative>>, 0))}}
      [] node = "create_graph" ->
             {Replies(LlmFails, DbFails, DbFails, plot_reply) :
                 plot_reply \in PlotReplies}
      [] OTHER -> {DefaultReplies}

-----------------------------------------------------------------------------
(* process_message: the server runs one call at a time.  Each step is one  *)
(* node of the graph with the routing that follows it.  The loader thread  *)
(* of the worker runs beside the calls.                                    *)

\* the loader thread of the worker has run to its end
GateLoaded ==
    /\ loader_pc = "done"
    /\ rag_loaded = RagModels \cup {"_llm_for_rag"}
    /\ rag_ready = TRUE
    /\ rag_pc = "idle"
    /\ rag_arguments = JNull
    /\ rag_envelope = NoHandled.envelope
    /\ rag_log = <<>>
    /\ rag_blocked = FALSE

\* ClaudeAgentSystem.__init__ has run and no message has come in
EngineReady ==
    /\ wf_engine \in Engines
    /\ wf_pc = "idle"
    /\ wf_state = InitialState(EmptyText, "")
    /\ wf_hist = [calls |-> 0, run |-> NoHistory]
    /\ wf_response = NoResponse
    /\ SessionsIdle
    /\ ToolsIdle
    /\ ClientIdle
    /\ ApiIdle
    /\ FunctionsIdle
    /\ BuilderIdle
    /\ LoopIdle

\* the server starts to take messages once the worker's models are loaded
FlowInit == EngineReady /\ GateLoaded

\* the server starts to take messages while the worker's loader thread runs
FlowGateInit == EngineReady /\ GateIdle

\* how often x occurs in seq
Count(seq, x) == Len(SelectSeq(seq, LAMBDA e : e = x))

\* the serial number of the answer the model writes next: answers of
\* different calls and of different attempts within a call are different
\* texts
AnswerSerial ==
    (MAX_RETRIES + 1) * (wf_hist.calls - 1)
        + Count(wf_hist.run.nodes, "generate_response") + 1

\* the node ran to its end: the history after it
Ran(node) == [wf_hist EXCEPT !.run.nodes = Append(@, node)]

\* the node raised: graph.invoke raises and the state is lost
NodeRaises ==
    /\ wf_pc' = "raised"
    /\ UNCHANGED <<wf_engine, wf_state, wf_hist, wf_response>>

\* the node ended in next_state
NodeEnds(node, next_state, hist) ==
    /\ wf_state' = next_state
    /\ wf_pc' = NextNode(wf_engine, node, next_state)
    /\ wf_hist' = hist
    /\ UNCHANGED <<wf_engine, wf_response>>

ToolNodes == {"query_sql", "create_graph", "query_budget_context"}

\* the request of the node about to run
NodeCall ==
    [name |-> wf_pc,
     arguments |-> ToolArguments(wf_engine, wf_pc, ToolInput(wf_pc, wf_state),
                                 SM_get_messages(sessions, wf_state.session_id))]

\* session_manager.get_messages_dict(session_id) in _call_agent_tool
HistoryRead ==
    /\ sessions' = SM_touch(sessions, wf_state.session_id, now)
    /\ UNCHANGED <<now, gc_now, sm_log, sm_added, gc_removed>>

\* a node that calls a tool, up to the response line: _call_agent_tool
\* reads the history and builds the arguments, call_tool writes the request
\* and the worker serves it.  A query_budget_context call is answered only
\* once the wait on the readiness gate is over.
CallAgentTool ==
    /\ wf_pc \in ToolNodes
    /\ tool_call = NoCall
    /\ wf_pc = "query_budget_context" =>
          \/ wait_returns(rag_ready)
          \/ RagQueryMissing(NodeCall.arguments)
    /\ \E replies \in WorldReplies(wf_pc) :
          /\ tool_call' = NodeCall
          /\ tool_replies' = replies
          /\ tool_handled' = handle_tools_call(NodeCall.name, NodeCall.arguments, replies)
    /\ HistoryRead
    /\ UNCHANGED <<flowVars, clientVars, gateVars, apiVars, fnVars, builderVars, loopVars>>

\* the same with a worker that has died: the request is written and
\* readline returns an empty line
AgentDied ==
    /\ wf_pc \in ToolNodes
    /\ tool_call = NoCall
    /\ tool_call' = NodeCall
    /\ tool_replies' = DefaultReplies
    /\ tool_handled' = NoHandled
    /\ HistoryRead
    /\ UNCHANGED <<flowVars, clientVars, gateVars, apiVars, fnVars, builderVars, loopVars>>

\* what agent.call_tool returns or raises for the request in flight
Called ==
    IF tool_handled = NoHandled
    THEN Raise(<<"Agent nc_budget died (no response)">>, <<>>)
    ELSE call_tool([id |-> 1, error |-> FALSE, result |-> tool_handled.envelope])

\* the response line has been read
CallReturns ==
    /\ tool_call # NoCall
    /\ tool_call' = NoCall
    /\ tool_replies' = DefaultReplies
    /\ tool_handled' = NoHandled
    /\ UNCHANGED <<smVars, clientVars, gateVars, apiVars, fnVars, builderVars, loopVars>>

\* process_message up to graph.invoke(initial_state)
ProcessMessage ==
    /\ wf_pc = "idle"
    /\ wf_hist.calls < MaxMessages
    /\ \E session_id \in SessionIds :
          wf_state' = InitialState(Text("q", wf_hist.calls + 1, 5), session_id)
    /\ wf_pc' = "route_question"
    /\ wf_hist' = [calls |-> wf_hist.calls + 1, run |-> NoHistory]
    /\ wf_response' = NoResponse
    /\ UNCHANGED wf_engine
    /\ UNCHANGED <<smVars, toolVars, clientVars, gateVars, apiVars, fnVars, builderVars, loopVars>>

RouteQuestion ==
    /\ wf_pc = "route_question"
    /\ \E llm_reply \in ClassifierReplies :
          LET out == route_question(wf_state, llm_reply)
          IN  IF out.raised THEN NodeRaises
              ELSE NodeEnds("route_question", out.val,
                            [Ran("route_question") EXCEPT !.run.reply = llm_reply])
    /\ UNCHANGED <<smVars, toolVars, clientVars, gateVars, apiVars, fnVars, builderVars, loopVars>>

\* query_sql from the return of call_tool on
QuerySql ==
    /\ wf_pc = "query_sql"
    /\ CallReturns
    /\ NodeEnds("query_sql",
                IF wf_engine = "claude_main"
                THEN CM_query_sql(wf_state, Called)
                ELSE GN_query_sql(wf_state, Called),
                Ran("query_sql"))

ValidateQuery ==
    /\ wf_pc = "validate_query"
    /\ NodeEnds("validate_query", validate_query(wf_state),
                [Ran("validate_query") EXCEPT !.run.query_validate_route =
                    Append(@, query_validate_route(validate_query(wf_state)))])
    /\ UNCHANGED <<smVars, toolVars, clientVars, gateVars, apiVars, fnVars, builderVars, loopVars>>

RouteVisualization ==
    /\ wf_pc = "route_visualization"
    /\ NodeEnds("route_visualization", wf_state, Ran("route_visualization"))
    /\ UNCHANGED <<smVars, toolVars, clientVars, gateVars, apiVars, fnVars, builderVars, loopVars>>

\* create_graph from the return of call_tool on
CreateGraph ==
    /\ wf_pc = "create_graph"
    /\ CallReturns
    /\ NodeEnds("create_graph", create_graph(wf_engine, wf_state, Called),
                Ran("create_graph"))

\* query_budget_context from the return of call_tool on
QueryBudgetContext ==
    /\ wf_pc = "query_budget_context"
    /\ CallReturns
    /\ NodeEnds("query_budget_context",
                query_budget_context(wf_engine, wf_state, Called),
                Ran("query_budget_context"))

GenerateResponse ==
    /\ wf_pc = "generate_response"
    /\ \E llm_reply \in AnswerReplies(AnswerSerial) :
          LET out == generate_response(wf_state, llm_reply)
          IN  IF out.raised THEN NodeRaises
              ELSE NodeEnds("generate_response", out.val,
                            [Ran("generate_response") EXCEPT !.run.entered =
                                Append(@, wf_state.validation_warnings)])
    /\ UNCHANGED <<smVars, toolVars, clientVars, gateVars, apiVars, fnVars, builderVars, loopVars>>

ValidateAnswer ==
    /\ wf_pc = "validate_answer"
    /\ \E data_reply \in CheckReplies, context_reply \in CheckReplies :
          LET validated ==
                  IF wf_engine = "claude_main"
                  THEN CM_validate_answer(wf_state, data_reply, context_reply)
                  ELSE GN_validate_answer(wf_state, data_reply, context_reply)
          IN  NodeEnds("validate_answer", validated,
                       [Ran("validate_answer") EXCEPT !.run.should_retry =
                           Append(@, should_retry(validated))])
    /\ UNCHANGED <<smVars, toolVars, clientVars, gateVars, apiVars, fnVars, builderVars, loopVars>>

HandleGeneral ==
    /\ wf_pc = "handle_general"
    /\ \E llm_reply \in AnswerReplies(AnswerSerial) :
          LET out == handle_general(wf_state, llm_reply)
          IN  IF out.raised THEN NodeRaises
              ELSE NodeEnds("handle_general", out.val, Ran("handle_general"))
    /\ UNCHANGED <<smVars, toolVars, clientVars, gateVars, apiVars, fnVars, builderVars, loopVars>>

\* the exchange is saved and response_data returned
Respond(response_data) ==
    /\ wf_response' = response_data
    /\ sessions' = SM_add_exchange(sessions, wf_state.session_id, wf_state.user_query,
                                   response_data.answer, now)
    /\ sm_added' = Added(sm_added, wf_state.session_id, wf_state.user_query,
                         response_data.answer)
    /\ wf_hist' = [wf_hist EXCEPT !.run.adds = @ + 1]
    /\ wf_pc' = "returned"
    /\ UNCHANGED <<wf_engine, wf_state>>
    /\ UNCHANGED <<now, gc_now, sm_log, gc_removed>>
    /\ UNCHANGED <<toolVars, clientVars, gateVars, apiVars, fnVars, builderVars, loopVars>>

\* process_message after graph.invoke returned final_state
Finish ==
    /\ wf_pc = "END"
    /\ Respond(ResponseData(wf_state.final_answer, wf_state.query_results,
                            wf_state.graph_data, wf_state.sql_query,
                            wf_state.validation_warnings))

\* "Error processing message: " followed by the text of the exception
ErrorMessage(n) == Text("Error processing message", n, 40)

\* process_message, the except branch
Fail ==
    /\ wf_pc = "raised"
    /\ Respond(ResponseData(ErrorMessage(wf_hist.calls), JNull, JNull, JNull, <<>>))

\* the caller has the response; the server takes the next message
NextMessage ==
    /\ wf_pc = "returned"
    /\ wf_pc' = "idle"
    /\ wf_state' = InitialState(EmptyText, "")
    /\ wf_hist' = [wf_hist EXCEPT !.run = NoHistory]
    /\ wf_response' = NoResponse
    /\ UNCHANGED wf_engine
    /\ UNCHANGED <<smVars, toolVars, clientVars, gateVars, apiVars, fnVars, builderVars, loopVars>>

\* the steps the server takes on its own once a message is in: every node,
\* and every tool call that the worker answers
FlowProgress ==
    \/ RouteQuestion
    \/ CallAgentTool
    \/ QuerySql
    \/ ValidateQuery
    \/ RouteVisualization
    \/ CreateGraph
    \/ QueryBudgetContext
    \/ GenerateResponse
    \/ ValidateAnswer
    \/ HandleGeneral
    \/ Finish
    \/ Fail
    \/ NextMessage

FlowNext ==
    \/ ProcessMessage
    \/ FlowProgress
    \/ AgentDied

SpecFlow == FlowInit /\ [][FlowNext]_vars

\* the steps of the worker's loader thread
LoaderProgress ==
    \/ LoadEmbeddingModel
    \/ LoadReranker
    \/ LoadChromaClient
    \/ LoadLlmForRag
    \/ SetReady

FlowGateNext ==
    \/ FlowNext
    \/ LoaderProgress

\* the workflow beside the loader thread; the threads of the server and of
\* the worker keep running
SpecFlowGate ==
    /\ FlowGateInit
    /\ [][FlowGateNext]_vars
    /\ WF_vars(FlowProgress)
    /\ WF_vars(LoaderProgress)

-----------------------------------------------------------------------------
(* Properties of the workflow *)

\* C1: in every run of the workflow should_retry returns "retry" at most
\* MAX_RETRIES = 2 times, whatever the grounding validators report, so
\* generate_response runs at most three times; a "done" is the last verdict
\* of the run, and after it the run has terminated.
C1_ResponseRetriesBounded ==
    LET verdicts == wf_hist.run.should_retry
    IN  /\ Count(verdicts, "retry") <= MAX_RETRIES
        /\ Count(wf_hist.run.nodes, "generate_response") <= MAX_RETRIES + 1
        /\ \A i \in 1..Len(verdicts) : verdicts[i] = "done" => i = Len(verdicts)
        /\ (verdicts # <<>> /\ verdicts[Len(verdicts)] = "done")
               => wf_pc \in {"END", "returned"}

\* C1 witness: the validators flagged all three answers; after the second
\* retry the run ended with the grounding warnings still there.
C1_Witness ==
    /\ wf_hist.run.should_retry = <<"retry", "retry", "done">>
    /\ Count(wf_hist.run.nodes, "generate_response") = MAX_RETRIES + 1
    /\ WithTag(wf_state.validation_warnings, GroundingTags) # <<>>
    /\ wf_state.retry_count = MAX_RETRIES
    /\ wf_pc = "END"

\* C2: in every run of the workflow query_validate_route returns
\* "retry_query" at most MAX_SQL_RETRIES = 2 times, also when every query_sql
\* attempt returns zero rows for a non-empty SQL statement, so query_sql runs
\* at most three times; a "continue" is the last route of the run and the
\* run does not go back to query_sql after it.
C2_SqlRetriesBounded ==
    LET routes == wf_hist.run.query_validate_route
    IN  /\ Count(routes, "retry_query") <= MAX_SQL_RETRIES
        /\ Count(wf_hist.run.nodes, "query_sql") <= MAX_SQL_RETRIES + 1
        /\ \A i \in 1..Len(routes) : routes[i] = "continue" => i = Len(routes)
        /\ (routes # <<>> /\ routes[Len(routes)] = "continue")
               => wf_pc \notin {"query_sql", "validate_query"}

\* C2 witness: three query_sql attempts returned zero rows for the statement
\* SELECT; the third validation still reports [EMPTY_RESULTS] and continues.
C2_Witness ==
    /\ wf_hist.run.query_validate_route = <<"retry_query", "retry_query", "continue">>
    /\ Count(wf_hist.run.nodes, "query_sql") = MAX_SQL_RETRIES + 1
    /\ WithTag(wf_state.validation_warnings, {"EMPTY_RESULTS"}) # <<>>
    /\ wf_state.sql_query = JStr(<<"SELECT">>)
    /\ wf_state.sql_retry_count = MAX_SQL_RETRIES
    /\ wf_pc = "route_visualization"

\* the self-correction loop of the call ended with grounding warnings left
UnresolvedGrounding ==
    /\ wf_pc = "returned"
    /\ wf_hist.run.should_retry # <<>>
    /\ wf_hist.run.should_retry[Len(wf_hist.run.should_retry)] = "done"
    /\ WithTag(wf_state.validation_warnings, GroundingTags) # <<>>

\* the entries of generate_response that found a grounding warning
GroundedEntries ==
    {i \in 1..Len(wf_hist.run.entered) :
         WithTag(wf_hist.run.entered[i], GroundingTags) # <<>>}

\* C23: the response-retry counter equals the number of generate_response
\* entries made so far whose incoming warnings held a [DATA_GROUNDING] or
\* [CONTEXT_GROUNDING] warning; an entry that found result-quality warnings
\* only left it unchanged.
C23_CounterCountsGroundingRetries ==
    wf_state.retry_count = Cardinality(GroundedEntries)

\* the result-quality warnings of the rows in the state
ResultQuality(state) ==
    IF py_truthy(state.query_results)
    THEN validate_query_results(state.query_results, state.sql_query, EmptyStr)
    ELSE <<>>

\* every warning of the first list is in the second
AllIn(warnings, others) ==
    \A i \in 1..Len(warnings) : \E j \in 1..Len(others) : others[j] = warnings[i]

\* C24: after validate_answer the warnings of the state hold the
\* result-quality warnings of the current rows, beside the grounding
\* warnings, and so do the warnings of the response returned at the end.
C24_ResultQualityKept ==
    /\ (/\ wf_hist.run.nodes # <<>>
        /\ wf_hist.run.nodes[Len(wf_hist.run.nodes)] = "validate_answer"
        /\ wf_pc \in {"generate_response", "END"})
           => AllIn(ResultQuality(wf_state), wf_state.validation_warnings)
    /\ (/\ wf_pc = "returned"
        /\ wf_hist.run.should_retry # <<>>
        /\ wf_hist.run.should_retry[Len(wf_hist.run.should_retry)] = "done")
           => AllIn(ResultQuality(wf_state), wf_response.validation_warnings)

\* C14: when the self-correction loop ends with grounding warnings still
\* present, the response-retry counter is at its cap of 2 and
\* process_message has returned the answer generated last, which is not
\* empty, together with those warnings; it did not raise.
C14_BestEffortAnswer ==
    UnresolvedGrounding
        => /\ wf_state.retry_count = MAX_RETRIES
           /\ wf_response.answer = wf_state.final_answer
           /\ wf_response.answer.id = <<"a", AnswerSerial - 1>>
           /\ ~IsEmptyText(wf_response.answer)
           /\ wf_response.validation_warnings = wf_state.validation_warnings
           /\ wf_response.answer.id[1] # "Error processing message"

\* C14 witness: three answers were flagged; the third, a text over the
\* session's limit, is returned with its grounding warnings.
C14_Witness ==
    /\ UnresolvedGrounding
    /\ wf_hist.run.should_retry = <<"retry", "retry", "done">>
    /\ wf_response.answer = Text("a", MAX_RETRIES + 1, max_chars + 1)
    /\ WithTag(wf_response.validation_warnings, GroundingTags) # <<>>

\* the node whose end decides between blocked, visualize and respond
GateNode == IF wf_engine = "claude_main" THEN "query_sql" ELSE "route_visualization"

\* the number of rows a result holds; an error message holds none
RowsReturned(results) == IF results.t = "list" THEN py_len(results) ELSE 0

\* C7: when the node after a database query ends, the run terminates if
\* query_error is set; otherwise create_graph is next if and only if the
\* user asked for a visualization or more than 4 rows were returned, and
\* generate_response is next in the other case.
C7_GateRouting ==
    [][(wf_pc = GateNode /\ wf_pc' # wf_pc)
         => IF py_truthy(wf_state'.query_error)
            THEN wf_pc' = "END"
            ELSE IF \/ wf_state'.wants_visualization
                    \/ RowsReturned(wf_state'.query_results) > visualize_rows
            THEN wf_pc' = "create_graph"
            ELSE wf_pc' = "generate_response"]_vars

\* C26: when the query_sql node ends after a tool call in which the
\* execution of the planned SQL failed, query_error is set and query_results
\* is a list of rows; no step stores a string as query_results or returns
\* one to the caller as data.
C26_FailedExecutionIsQueryError ==
    [][/\ (wf_pc = "query_sql" /\ wf_pc' \notin {"query_sql", "raised"}
           /\ ExecutionFailed)
          => py_truthy(wf_state'.query_error)
       /\ wf_state'.query_results.t = "list"
       /\ wf_response'.data.t \in {"list", "null"}]_vars

\* C27: while the response line of a tool call holds an envelope with isError
\* set, call_tool does not return a normal result for it and _call_agent_tool
\* yields success = False.
C27_ErrorEnvelopeIsFailure ==
    (tool_call # NoCall /\ tool_handled # NoHandled /\ tool_handled.envelope.isError)
    => /\ Called.raised
       /\ ~_call_agent_tool(wf_engine, tool_call.name, Called).success

\* the exchange of the call in progress is the last one of its session and
\* the only one the call added
ExchangeSaved ==
    LET messages == SM_get_messages(sessions, wf_state.session_id)
    IN  /\ wf_hist.run.adds = 1
        /\ Len(messages) >= 2
        /\ messages[Len(messages) - 1] = Message("user", wf_state.user_query)
        /\ messages[Len(messages)]
               = Message("assistant", _truncate_content(wf_response.answer, max_chars))

\* C8: every process_message call returns a response and has then added
\* exactly one exchange for its message to the session named by session_id.
C8_EveryCallAnswered ==
    [](wf_pc = "route_question" => <>(wf_pc = "returned" /\ ExchangeSaved))

\* the reply is the two lines asked for: "category: <database/context/
\* general>" and "visualization: <yes/no>", in any letter case
ExpectedReply(llm_reply) ==
    LET lines == text_strip_lower(llm_reply.content)
    IN  /\ llm_reply.ok
        /\ Len(lines) = 2
        /\ Len(lines[1]) = 2
        /\ lines[1][1] = "category"
        /\ lines[1][2] \in {" database", " context", " general"}
        /\ Len(lines[2]) = 2
        /\ lines[2][1] = "visualization"
        /\ lines[2][2] \in {" yes", " no"}

\* C9: once route_question has run, query_type is database, context or
\* general (general and no visualization when the reply is not the two lines
\* asked for), so route_by_type returns a key of the edge map.
C9_QueryTypeDefined ==
    Count(wf_hist.run.nodes, "route_question") > 0
        => /\ wf_state.query_type \in {"database", "context", "general"}
           /\ ~ExpectedReply(wf_hist.run.reply)
                  => wf_state.query_type = "general" /\ ~wf_state.wants_visualization
           /\ route_by_type(wf_state) \in DOMAIN QueryTypeBranches

-----------------------------------------------------------------------------
(* The REST boundary (api.py).  The handlers of POST /chat and POST        *)
(* /clear-session are coroutines that call process_message and            *)
(* clear_session without awaiting anything, so the event loop runs one     *)
(* handler body at a time.  A request reaches a handler with its X-API-Key *)
(* header and a well-formed body; the checks the framework makes before    *)
(* that (required header, body validation, rate limit) are not part of the *)
(* handlers.  The engine of api.py is ClaudeAgentSystem.                   *)

\* os.getenv("BACKEND_API_KEY"): not set, set to the empty text, set
ApiKeys == {"unset", "", "secret"}

\* the X-API-Key headers tried
HeaderKeys == {"secret", "wrong", ""}

\* a key check that lets requests in when the server holds no secret
verify_api_key_open(expected_key, x_api_key) ==
    IF expected_key \in {"unset", ""} THEN 0
    ELSE IF x_api_key # expected_key THEN 403
    ELSE 0

\* api.py: the key check at the head of chat and of clear_session: the
\* status code of the HTTPException raised, or 0 when the request passes
verify_api_key(expected_key, x_api_key) ==
    IF expected_key \in {"unset", ""} THEN 500
    ELSE IF x_api_key # expected_key THEN 403
    ELSE 0

\* ChatResponse(...): pydantic takes `data` only as a list of rows or None
\* and `graph` and `sql_query` only as a str or None
ChatResponseValid(result) ==
    /\ result.data.t \in {"list", "null"}
    /\ result.graph.t \in {"str", "null"}
    /\ result.sql_query.t \in {"str", "null"}

\* a request comes in: the next one in line
ApiRequest(route, x_api_key, session_id) ==
    [n |-> api_request.n + 1, route |-> route, x_api_key |-> x_api_key,
     session_id |-> session_id]

\* the handler answers with the status code
ApiResponds(status) ==
    /\ api_status' = status
    /\ api_pc' = "responded"

\* startup_event has run: the key is in the environment or not, and
\* ClaudeAgentSystem() was built or raised
ApiInit ==
    /\ api_key \in ApiKeys
    /\ claude_system \in {"none", "ready"}
    /\ api_pc = "idle"
    /\ api_request = NoApiRequest
    /\ api_status = 0
    /\ api_before = [sessions |-> NoSessions, calls |-> 0]
    /\ wf_engine = "claude_main"
    /\ wf_pc = "idle"
    /\ wf_state = InitialState(EmptyText, "")
    /\ wf_hist = [calls |-> 0, run |-> NoHistory]
    /\ wf_response = NoResponse
    /\ SessionsIdle
    /\ ToolsIdle
    /\ ClientIdle
    /\ GateLoaded
    /\ FunctionsIdle
    /\ BuilderIdle
    /\ LoopIdle

\* POST /chat up to process_message
ApiChat ==
    /\ api_pc \in {"idle", "responded"}
    /\ api_request.n < MaxRequests
    /\ \E x_api_key \in HeaderKeys, session_id \in SessionIds :
          LET denied == verify_api_key(api_key, x_api_key)
          IN  /\ api_request' = ApiRequest("/chat", x_api_key, session_id)
              /\ api_before' = [sessions |-> sessions, calls |-> wf_hist.calls]
              /\ IF denied # 0
                 THEN ApiResponds(denied) /\ UNCHANGED flowVars
                 ELSE IF claude_system = "none"
                 THEN ApiResponds(503) /\ UNCHANGED flowVars
                 ELSE /\ wf_hist.calls < MaxMessages
                      /\ api_pc' = "processing"
                      /\ api_status' = 0
                      /\ wf_state' = InitialState(Text("q", wf_hist.calls + 1, 5),
                                                  session_id)
                      /\ wf_pc' = "route_question"
                      /\ wf_hist' = [calls |-> wf_hist.calls + 1, run |-> NoHistory]
                      /\ wf_response' = NoResponse
                      /\ UNCHANGED wf_engine
    /\ UNCHANGED <<api_key, claude_system>>
    /\ UNCHANGED <<smVars, toolVars, clientVars, gateVars, fnVars, builderVars, loopVars>>

\* POST /chat from the return of process_message on: the ChatResponse is
\* built, or building it raises and the handler answers 500
ApiChatReturns ==
    /\ api_pc = "processing"
    /\ wf_pc = "returned"
    /\ ApiResponds(IF ChatResponseValid(wf_response) THEN 200 ELSE 500)
    /\ wf_pc' = "idle"
    /\ wf_state' = InitialState(EmptyText, "")
    /\ wf_hist' = [wf_hist EXCEPT !.run = NoHistory]
    /\ UNCHANGED <<wf_engine, wf_response>>
    /\ UNCHANGED <<api_key, claude_system, api_request, api_before>>
    /\ UNCHANGED <<smVars, toolVars, clientVars, gateVars, fnVars, builderVars, loopVars>>

\* POST /clear-session
ApiClearSession ==
    /\ api_pc \in {"idle", "responded"}
    /\ api_request.n < MaxRequests
    /\ \E x_api_key \in HeaderKeys, session_id \in SessionIds :
          LET denied == verify_api_key(api_key, x_api_key)
          IN  /\ api_request' = ApiRequest("/clear-session", x_api_key, session_id)
              /\ api_before' = [sessions |-> sessions, calls |-> wf_hist.calls]
              /\ IF denied # 0
                 THEN ApiResponds(denied) /\ UNCHANGED smVars
                 ELSE /\ ApiResponds(200)
                      /\ sessions' = SM_clear_session(sessions, session_id)
                      /\ sm_added' = Forgotten(sm_added, {session_id})
                      /\ UNCHANGED <<now, gc_now, sm_log, gc_removed>>
    /\ UNCHANGED <<api_key, claude_system>>
    /\ UNCHANGED <<toolVars, clientVars, gateVars, flowVars, fnVars, builderVars, loopVars>>

\* a step of process_message while the handler of /chat waits for it
ApiProcessMessage ==
    /\ api_pc = "processing"
    /\ \/ RouteQuestion
       \/ CallAgentTool
       \/ AgentDied
       \/ QuerySql
       \/ CreateGraph
       \/ QueryBudgetContext
       \/ GenerateResponse
       \/ ValidateAnswer
       \/ HandleGeneral
       \/ Finish
       \/ Fail

ApiNext ==
    \/ ApiChat
    \/ ApiChatReturns
    \/ ApiClearSession
    \/ ApiProcessMessage

SpecApi == ApiInit /\ [][ApiNext]_vars

\* the request answered last changed no session and did not reach the engine
NoStateChange ==
    /\ sessions = api_before.sessions
    /\ wf_hist.calls = api_before.calls
    /\ wf_pc = "idle"

\* C13: a request to /chat or /clear-session is answered 500 when
\* BACKEND_API_KEY is not set (or empty) and 403 when the X-API-Key header
\* differs from it; in both cases no session was created, modified or
\* cleared and process_message was not called, also on /chat with no
\* engine (the 503 check comes after these checks).
C13_KeyChecksFirst ==
    api_pc = "responded"
        => /\ api_key \in {"unset", ""}
                  => api_status = 500 /\ NoStateChange
           /\ (api_key \notin {"unset", ""} /\ api_request.x_api_key # api_key)
                  => api_status = 403 /\ NoStateChange

\* C13 witness: a /chat request created session s1; the next one, for the
\* same session with a wrong key, was answered 403 and s1 is as it was.
C13_Witness ==
    /\ api_pc = "responded"
    /\ api_request = [n |-> 2, route |-> "/chat", x_api_key |-> "wrong",
                      session_id |-> "s1"]
    /\ api_status = 403
    /\ "s1" \in DOMAIN sessions
    /\ Len(sessions["s1"].messages) = 2
    /\ sessions = api_before.sessions

\* C13 witness, second case: with no engine and no server key, /chat is
\* answered 500, not 503.
C13_WitnessNoKey ==
    /\ api_pc = "responded"
    /\ api_request.route = "/chat"
    /\ api_key = "unset"
    /\ claude_system = "none"
    /\ api_status = 500

-----------------------------------------------------------------------------
(* The session manager under concurrent callers: every public method runs  *)
(* its whole body under self.lock, so each call is one atomic step; the GC *)
(* thread reads the clock before it takes the lock.                        *)

SessionInit ==
    /\ sessions = NoSessions
    /\ now = 0
    /\ gc_now = -1
    /\ sm_log = 0
    /\ sm_added = NoAdded
    /\ gc_removed = {}
    /\ ToolsIdle
    /\ ClientIdle
    /\ GateIdle
    /\ FlowIdle
    /\ ApiIdle
    /\ FunctionsIdle
    /\ BuilderIdle
    /\ LoopIdle

AddExchange ==
    \E sid \in SessionIds, len \in ResponseLens :
        /\ sm_log < MaxAdds
        /\ sessions' = SM_add_exchange(sessions, sid,
                                       Text("q", sm_log + 1, 5),
                                       Text("a", sm_log + 1, len), now)
        /\ sm_log' = sm_log + 1
        /\ sm_added' = Added(sm_added, sid, Text("q", sm_log + 1, 5),
                             Text("a", sm_log + 1, len))
        /\ UNCHANGED <<now, gc_now, gc_removed>>
        /\ UNCHANGED <<toolVars, clientVars, gateVars, flowVars, apiVars, fnVars, builderVars, loopVars>>

GetMessages ==
    \E sid \in SessionIds :
        /\ sessions' = SM_touch(sessions, sid, now)
        /\ UNCHANGED <<now, gc_now, sm_log, sm_added, gc_removed>>
        /\ UNCHANGED <<toolVars, clientVars, gateVars, flowVars, apiVars, fnVars, builderVars, loopVars>>

ClearSession ==
    \E sid \in SessionIds :
        /\ sessions' = SM_clear_session(sessions, sid)
        /\ sm_added' = Forgotten(sm_added, {sid})
        /\ UNCHANGED <<now, gc_now, sm_log, gc_removed>>
        /\ UNCHANGED <<toolVars, clientVars, gateVars, flowVars, apiVars, fnVars, builderVars, loopVars>>

\* gc_loop wakes up and _garbage_collect reads time.time()
GcReadClock ==
    /\ gc_now = -1
    /\ gc_now' = now
    /\ UNCHANGED <<sessions, now, sm_log, sm_added, gc_removed>>
    /\ UNCHANGED <<toolVars, clientVars, gateVars, flowVars, apiVars, fnVars, builderVars, loopVars>>

\* _garbage_collect takes the lock and deletes the expired sessions
GcSweep ==
    /\ gc_now # -1
    /\ sessions' = SM_sweep(sessions, gc_now)
    /\ gc_now' = -1
    /\ sm_added' = Forgotten(sm_added, SM_expired(sessions, gc_now))
    /\ gc_removed' = SM_expired(sessions, gc_now)
    /\ UNCHANGED <<now, sm_log>>
    /\ UNCHANGED <<toolVars, clientVars, gateVars, flowVars, apiVars, fnVars, builderVars, loopVars>>

Tick ==
    /\ now < MaxTicks * TickSeconds
    /\ now' = now + TickSeconds
    /\ UNCHANGED <<sessions, gc_now, sm_log, sm_added, gc_removed>>
    /\ UNCHANGED <<toolVars, clientVars, gateVars, flowVars, apiVars, fnVars, builderVars, loopVars>>

SessionNext ==
    \/ AddExchange
    \/ GetMessages
    \/ ClearSession
    \/ GcReadClock
    \/ GcSweep
    \/ Tick

SpecSession == SessionInit /\ [][SessionNext]_vars

\* the list get_messages returns for the pairs passed to add_exchange: the
\* user message and the response as stored (cut to max_chars), per pair
RECURSIVE Exchanges(_)
Exchanges(pairs) ==
    IF pairs = <<>> THEN <<>>
    ELSE <<Message("user", Head(pairs).user),
           Message("assistant", _truncate_content(Head(pairs).response, max_chars))>>
         \o Exchanges(Tail(pairs))

\* C15: under any interleaving of add_exchange and get_messages calls (and
\* of the other operations), get_messages returns for every session the last
\* min(n, window_size) exchanges of the n added since the session was
\* created, in the order of their add_exchange calls: an even number of
\* messages, user and assistant in turn, each user message followed by the
\* response passed in the same call.
C15_WholeExchangesInOrder ==
    \A sid \in SessionIds :
        LET messages == SM_get_messages(sessions, sid)
            kept == LastN(sm_added[sid], window_size)
        IN  /\ Len(messages) = 2 * Len(kept)
            /\ Len(kept) = IF Len(sm_added[sid]) < window_size
                           THEN Len(sm_added[sid]) ELSE window_size
            /\ messages = Exchanges(kept)
            /\ \A i \in 1..Len(kept) :
                   /\ messages[2 * i - 1].role = "user"
                   /\ messages[2 * i].role = "assistant"
                   /\ messages[2 * i - 1].content.id[2] = messages[2 * i].content.id[2]

\* C15 witness: s1 received the first and the third exchange and s2 the
\* second one in between; s1 holds its two exchanges in order.
C15_Witness ==
    /\ Len(sm_added["s1"]) = 2
    /\ Len(sm_added["s2"]) = 1
    /\ "s1" \in DOMAIN sessions
    /\ Len(sessions["s1"].messages) = 4
    /\ sessions["s1"].messages[1].content.id = <<"q", 1>>
    /\ sessions["s1"].messages[4].content.id = <<"a", 3>>
    /\ sessions["s1"].last_accessed > 0

\* C16: a garbage-collection pass deletes exactly the sessions whose
\* last_accessed lies more than ttl_seconds before the time the pass read,
\* and leaves every other session as it was; whatever ran between the
\* reading of the clock and the sweep, no session accessed within the last
\* ttl_seconds of the wall clock is deleted.
C16_GcDeletesOnlyExpired ==
    [][(gc_now # -1 /\ gc_now' = -1)
         => /\ DOMAIN sessions' =
                  {sid \in DOMAIN sessions :
                      gc_now - sessions[sid].last_accessed <= ttl_seconds}
            /\ \A sid \in DOMAIN sessions' : sessions'[sid] = sessions[sid]
            /\ \A sid \in DOMAIN sessions :
                   now - sessions[sid].last_accessed <= ttl_seconds
                       => sid \in DOMAIN sessions']_vars

\* C16 witness: the pass deleted s1, idle for more than ttl_seconds, and
\* kept s2, which was last accessed exactly ttl_seconds before.
C16_Witness ==
    /\ gc_removed = {"s1"}
    /\ gc_now = -1
    /\ "s2" \in DOMAIN sessions
    /\ now - sessions["s2"].last_accessed = ttl_seconds
    /\ sessions["s2"].messages # <<>>

\* C3: whatever add_exchange, get_messages, clear_session and the garbage
\* collector have done so far, in any order, no session holds more than
\* window_size * 2 = 4 messages.
C3_WindowBound ==
    \A sid \in DOMAIN sessions : Len(sessions[sid].messages) <= window_size * 2

\* C3 witness: a session that received three exchanges and was trimmed to the
\* last two of them.
C3_Witness ==
    \E sid \in DOMAIN sessions :
        /\ sm_log = 3
        /\ Len(sessions[sid].messages) = window_size * 2
        /\ sessions[sid].messages[1].content.id = <<"q", 2>>
        /\ sessions[sid].messages[4].content.id = <<"a", 3>>

-----------------------------------------------------------------------------
(* The retriever's merge.  A ChromaDB query result is a record of parallel  *)
(* lists, one inner list per query embedding (one here); the empty dict {}  *)
(* is the record without fields.  A Python dict is the sequence of its      *)
(* [key, value] items in insertion order.                                   *)

EmptyDict == <<>>

\* merged[key] = value
DictSet(merged, key, value) ==
    IF \E i \in 1..Len(merged) : merged[i].key = key
    THEN [i \in 1..Len(merged) |->
              IF merged[i].key = key THEN [key |-> key, value |-> value]
              ELSE merged[i]]
    ELSE Append(merged, [key |-> key, value |-> value])

\* `doc_id in merged`
DictHas(merged, key) == \E i \in 1..Len(merged) : merged[i].key = key

\* the chunk built from hit i of a result
Chunk(result, i) ==
    [text |-> result.documents[1][i],
     metadata |-> result.metadatas[1][i],
     distance |-> result.distances[1][i]]

\* retriever.py: the loop over filtered['ids'][0]
RECURSIVE add_filtered(_, _, _)
add_filtered(merged, filtered, i) ==
    IF i > Len(filtered.ids[1]) THEN merged
    ELSE add_filtered(DictSet(merged, filtered.ids[1][i], Chunk(filtered, i)),
                      filtered, i + 1)

\* retriever.py: the loop over unfiltered['ids'][0]
RECURSIVE add_unfiltered(_, _, _)
add_unfiltered(merged, unfiltered, i) ==
    IF i > Len(unfiltered.ids[1]) THEN merged
    ELSE add_unfiltered(IF DictHas(merged, unfiltered.ids[1][i]) THEN merged
                        ELSE DictSet(merged, unfiltered.ids[1][i],
                                     Chunk(unfiltered, i)),
                        unfiltered, i + 1)

\* the loop over unfiltered['ids'][0] without the `not in merged` test
RECURSIVE add_unfiltered_over(_, _, _)
add_unfiltered_over(merged, unfiltered, i) ==
    IF i > Len(unfiltered.ids[1]) THEN merged
    ELSE add_unfiltered_over(DictSet(merged, unfiltered.ids[1][i],
                                     Chunk(unfiltered, i)),
                             unfiltered, i + 1)

\* `filtered and 'ids' in filtered and filtered['ids']`
HasIds(filtered) ==
    /\ DOMAIN filtered # {}
    /\ "ids" \in DOMAIN filtered
    /\ filtered.ids # <<>>

\* list(merged.values())
DictValues(merged) == [i \in 1..Len(merged) |-> merged[i].value]

\* a merge in which the later, unfiltered hit replaces the filtered one
_merge_results_last_wins(filtered, unfiltered) ==
    DictValues(add_unfiltered_over(
        IF HasIds(filtered) THEN add_filtered(<<>>, filtered, 1) ELSE <<>>,
        unfiltered, 1))

\* retriever.py: HybridRetriever._merge_results
_merge_results(filtered, unfiltered) ==
    DictValues(add_unfiltered(
        IF HasIds(filtered) THEN add_filtered(<<>>, filtered, 1) ELSE <<>>,
        unfiltered, 1))

-----------------------------------------------------------------------------
(* The pure functions, each applied once to arguments drawn from the sets   *)
(* below.                                                                   *)

\* results handed to validate_query_results: no rows, clean rows, rows with
\* findings, more rows than large_result_limit, and the message the tool
\* hands back in place of rows
ResultSets ==
    {EmptyList, JList(<<RowPaid>>, 0), JList(<<RowNegative>>, 0),
     JList(<<RowOldYear, RowNegative>>, 0), JList(<<>>, large_result_limit + 1),
     EmptyStr, JStr(<<"Error executing query: ", "OperationalError">>)}

ErrorStrings == {EmptyStr, JStr(<<"OperationalError">>), JStr(<<Space>>)}

ShortSql == {JStr(<<>>)} \cup {JStr(<<a>>) : a \in Atoms}

SelectWords ==
    {"SELECT", Space, "vendor_payments", "VENDOR_PAYMENTS", "Vendor_Payments",
     "BUDGET", "budget", "Budget", "fiscal_year"}

SelectTexts == UNION {[1..n -> SelectWords] : n \in 0..MaxSqlAtoms}

ChunkIds == {"c1", "c2", "c3"}

\* the ids of one search result: no id twice
HitLists ==
    {ids \in UNION {[1..n -> ChunkIds] : n \in 0..MaxHits} :
         \A i, j \in 1..Len(ids) : ids[i] = ids[j] => i = j}

\* what collection.query returns for one embedding: every field of a hit
\* tells the pass it came from
ChromaResult(pass, ids) ==
    [ids |-> <<ids>>,
     documents |-> <<[i \in 1..Len(ids) |-> <<"text", pass, ids[i]>>]>>,
     metadatas |-> <<[i \in 1..Len(ids) |-> <<"metadata", pass, ids[i]>>]>>,
     distances |-> <<[i \in 1..Len(ids) |-> IF pass = "filtered" THEN i ELSE 10 + i]>>]

\* retrieve: filtered_results is {} when no keyword was extracted or the
\* filtered search raised
FilteredResults == {EmptyDict} \cup {ChromaResult("filtered", ids) : ids \in HitLists}

UnfilteredResults == {ChromaResult("unfiltered", ids) : ids \in HitLists}

FnCall(fn, args) == [fn |-> fn, args |-> args]

Returned(val) == [done |-> TRUE, val |-> val]

FunctionsInit ==
    /\ \/ \E results \in ResultSets, sql \in ShortSql, query_error \in ErrorStrings :
              fn_call = FnCall("validate_query_results", <<results, sql, query_error>>)
       \/ \E sql \in SqlTexts : fn_call = FnCall("sql_validator", <<sql>>)
       \/ \E filtered \in FilteredResults, unfiltered \in UnfilteredResults :
              fn_call = FnCall("_merge_results", <<filtered, unfiltered>>)
       \/ \E sql \in SelectTexts : fn_call = FnCall("select_tool", <<sql>>)
       \/ \E llm_reply \in LlmReplies :
              fn_call = FnCall("plan_query", <<UserQuestion, llm_reply>>)
    /\ fn_result = NoFnResult
    /\ SessionsIdle
    /\ ToolsIdle
    /\ ClientIdle
    /\ GateIdle
    /\ FlowIdle
    /\ ApiIdle
    /\ BuilderIdle
    /\ LoopIdle

ApplyValidateQueryResults ==
    /\ fn_call.fn = "validate_query_results"
    /\ ~fn_result.done
    /\ fn_result' = Returned(validate_query_results(fn_call.args[1], fn_call.args[2],
                                                    fn_call.args[3]))
    /\ UNCHANGED <<fn_call, smVars, toolVars, clientVars, gateVars, flowVars, apiVars,
                 builderVars, loopVars>>

ApplySqlValidator ==
    /\ fn_call.fn = "sql_validator"
    /\ ~fn_result.done
    /\ fn_result' = Returned(sql_validator(fn_call.args[1]))
    /\ UNCHANGED <<fn_call, smVars, toolVars, clientVars, gateVars, flowVars, apiVars,
                 builderVars, loopVars>>

ApplyMergeResults ==
    /\ fn_call.fn = "_merge_results"
    /\ ~fn_result.done
    /\ fn_result' = Returned(_merge_results(fn_call.args[1], fn_call.args[2]))
    /\ UNCHANGED <<fn_call, smVars, toolVars, clientVars, gateVars, flowVars, apiVars,
                 builderVars, loopVars>>

ApplySelectTool ==
    /\ fn_call.fn = "select_tool"
    /\ ~fn_result.done
    /\ fn_result' = Returned(select_tool(fn_call.args[1]))
    /\ UNCHANGED <<fn_call, smVars, toolVars, clientVars, gateVars, flowVars, apiVars,
                 builderVars, loopVars>>

ApplyPlanQuery ==
    /\ fn_call.fn = "plan_query"
    /\ ~fn_result.done
    /\ fn_result' = Returned(plan_query(fn_call.args[1], fn_call.args[2]))
    /\ UNCHANGED <<fn_call, smVars, toolVars, clientVars, gateVars, flowVars, apiVars,
                   builderVars, loopVars>>

FunctionsNext ==
    \/ ApplyValidateQueryResults
    \/ ApplySqlValidator
    \/ ApplyMergeResults
    \/ ApplySelectTool
    \/ ApplyPlanQuery

SpecFunctions == FunctionsInit /\ [][FunctionsNext]_vars

\* the tags of a list of warnings
Tags(warnings) == {warnings[i].tag : i \in 1..Len(warnings)}

IsSeparator(a) == a \in Whitespace \cup {Semicolon}

\* the text holds the keyword, in any letter case, as a whole word
WholeWord(sql, keyword) ==
    \E i \in 1..Len(sql) :
        /\ AtomUpper(sql[i]) = keyword
        /\ (i = 1 \/ IsSeparator(sql[i - 1]))
        /\ (i = Len(sql) \/ IsSeparator(sql[i + 1]))

\* the text without one trailing semicolon
StripOneSemicolon(sql) ==
    IF sql # <<>> /\ sql[Len(sql)] = Semicolon
    THEN SubSeq(sql, 1, Len(sql) - 1) ELSE sql

\* C18: sql_validator returns the unsafe verdict with exactly one warning if
\* and only if the statement holds one of the nine destructive keywords as a
\* whole word, in any letter case, or still holds a semicolon after one
\* trailing semicolon is stripped; for every other statement it returns safe
\* with no warning.
C18_UnsafeIffKeywordOrSemicolon ==
    (fn_call.fn = "sql_validator" /\ fn_result.done) =>
        LET sql == fn_call.args[1]
            verdict == fn_result.val
            destructive ==
                \E k \in 1..Len(destructive_keywords) :
                    WholeWord(sql, destructive_keywords[k])
            several == str_contains(StripOneSemicolon(sql), Semicolon)
        IN  IF destructive \/ several
            THEN ~verdict.is_safe /\ Len(verdict.warnings) = 1
            ELSE verdict.is_safe /\ verdict.warnings = <<>>

\* the text holds the word in some letter case
HoldsAnyCase(sql, upper_word) ==
    \E i \in 1..Len(sql) : AtomContains(AtomUpper(sql[i]), upper_word)

\* the list holds a warning of this kind about these words
Finds(warnings, kind, words) ==
    \E i \in 1..Len(warnings) :
        /\ warnings[i].tag = "SQL_VALIDATOR"
        /\ warnings[i].detail[1] = kind
        /\ warnings[i].detail[3] = words

\* C25: for every SQL text the model returns, plan_query returns a plan and
\* does not raise, and the warnings of the plan hold every advisory finding
\* that applies, each on its own: a destructive keyword (as a whole word),
\* more than one statement (a semicolon left after one trailing semicolon is
\* stripped), a text that does not start with SELECT, and a text with
\* neither WHERE nor LIMIT.  plan_query raises only when the model call
\* fails.
C25_PlanHoldsEveryFinding ==
    (fn_call.fn = "plan_query" /\ fn_result.done) =>
        LET llm_reply == fn_call.args[2]
            out == fn_result.val
            sql == str_strip(llm_reply.content)
            warnings == out.val.warnings
        IN  /\ out.raised <=> ~llm_reply.ok
            /\ llm_reply.ok =>
                   /\ out.val.sql = JStr(sql)
                   /\ \A k \in 1..Len(destructive_keywords) :
                          WholeWord(sql, destructive_keywords[k])
                              => Finds(warnings, "destructive", <<destructive_keywords[k]>>)
                   /\ str_contains(StripOneSemicolon(sql), Semicolon)
                          => Finds(warnings, "multiple", <<>>)
                   /\ ~(sql # <<>> /\ AtomStartsWith(AtomUpper(sql[1]), "SELECT"))
                          => Finds(warnings, "non_select", <<>>)
                   /\ ~(HoldsAnyCase(sql, "WHERE") \/ HoldsAnyCase(sql, "LIMIT"))
                          => Finds(warnings, "full_scan", <<>>)

\* the ids of a search result, {} having none
IdsOf(result) == IF HasIds(result) THEN result.ids[1] ELSE <<>>

IdSet(ids) == {ids[i] : i \in 1..Len(ids)}

\* C19: the merged list holds exactly one chunk for every distinct id of the
\* two results together, and the chunk of an id found by both passes has the
\* text, the metadata and the distance of the filtered pass.
C19_OnePerIdFilteredWins ==
    (fn_call.fn = "_merge_results" /\ fn_result.done) =>
        LET filtered == fn_call.args[1]
            unfiltered == fn_call.args[2]
            f_ids == IdsOf(filtered)
            u_ids == IdsOf(unfiltered)
            merged == fn_result.val
        IN  /\ Len(merged) = Cardinality(IdSet(f_ids) \cup IdSet(u_ids))
            /\ \A id \in IdSet(f_ids) \cup IdSet(u_ids) :
                   \E i \in 1..Len(merged) : merged[i].text[3] = id
            /\ \A i \in 1..Len(f_ids) :
                   f_ids[i] \in IdSet(u_ids) =>
                       \E j \in 1..Len(merged) : merged[j] = Chunk(filtered, i)

\* C19 witness: both passes found c1, at different places, each found one
\* more chunk, and three chunks came back.
C19_Witness ==
    /\ fn_call.fn = "_merge_results"
    /\ fn_result.done
    /\ IdsOf(fn_call.args[1]) = <<"c2", "c1">>
    /\ IdsOf(fn_call.args[2]) = <<"c1", "c3">>
    /\ Len(fn_result.val) = 3
    /\ fn_result.val[2] = [text |-> <<"text", "filtered", "c1">>,
                           metadata |-> <<"metadata", "filtered", "c1">>,
                           distance |-> 2]

\* C20: select_tool returns query_vendor_payments when the text holds
\* vendor_payments in any letter case, otherwise query_budget when it holds
\* budget in any letter case, otherwise query_vendor_payments; it returns a
\* tool for every text.
C20_VendorThenBudgetThenDefault ==
    (fn_call.fn = "select_tool" /\ fn_result.done) =>
        LET sql == fn_call.args[1]
        IN  /\ fn_result.val =
                   (IF HoldsAnyCase(sql, "VENDOR_PAYMENTS") THEN "query_vendor_payments"
                    ELSE IF HoldsAnyCase(sql, "BUDGET") THEN "query_budget"
                    ELSE "query_vendor_payments")
            /\ fn_result.val \in {"query_vendor_payments", "query_budget"}

\* C20 witness: a text that names both tables, the vendor table in capitals
\* and after the budget table, was sent to the vendor tool.
C20_Witness ==
    /\ fn_call.fn = "select_tool"
    /\ fn_result.done
    /\ fn_call.args[1] = <<"budget", Space, "VENDOR_PAYMENTS">>
    /\ fn_result.val = "query_vendor_payments"

\* C20, the other branches: a text that names the budget table only, in
\* mixed case, went to the budget tool.
C20_WitnessBudget ==
    /\ fn_call.fn = "select_tool"
    /\ fn_result.done
    /\ fn_call.args[1] = <<"SELECT", Space, "Budget">>
    /\ fn_result.val = "query_budget"

-----------------------------------------------------------------------------
(* The Database Builder (sql_init.py).  A table is [exists, rows, seq]:     *)
(* rows are [id, src], src telling the file and line a row came from; seq   *)
(* is the table's entry in sqlite_sequence.  Each connection works on its   *)
(* own copy (build.vendor, build.budget) from the first DELETE on, which    *)
(* opens a transaction, and commit() makes the copy the database.  A script *)
(* that ends on an exception closes its connections without a commit.       *)

header_width == 11

\* len(row) of the rows tried
CsvWidths == {10, 11, 12}

CsvFile(rows) == [found |-> TRUE, rows |-> rows]

\* a csv file: missing, without any line, or a header and data rows
CsvTexts ==
    {MissingFile, CsvFile(<<>>)}
    \cup {CsvFile(<<header_width>> \o rows) :
              rows \in UNION {[1..n -> CsvWidths] : n \in 0..MaxCsvRows}}

\* the files of single years
YearCsvTexts == {MissingFile, CsvFile(<<header_width>>), CsvFile(<<header_width, 11>>)}

VendorCsvs == <<"vendor_data.csv", "Key value - Payment 1y.csv",
                "Key value - Payment 1ya.csv">>

BudgetCsvs == <<"budget_data.csv", "budget2024.csv">>

Max(a, b) == IF a >= b THEN a ELSE b

RECURSIVE MaxId(_)
MaxId(rows) == IF rows = <<>> THEN 0 ELSE Max(Head(rows).id, MaxId(Tail(rows)))

\* INSERT INTO a table with INTEGER PRIMARY KEY AUTOINCREMENT
insert_row(table, src) ==
    LET id == Max(table.seq, MaxId(table.rows)) + 1
    IN  [table EXCEPT !.rows = Append(@, [id |-> id, src |-> src]), !.seq = id]

\* a clearing that forgets the DELETE FROM <table>
clear_table_keeps_rows(table) == [table EXCEPT !.seq = 0]

\* DELETE FROM <table>; DELETE FROM sqlite_sequence WHERE name='<table>'
clear_table(table) == [table EXCEPT !.rows = <<>>, !.seq = 0]

\* `for row in reader: if len(row) >= 11: INSERT`, from line i on
RECURSIVE import_rows(_, _, _, _)
import_rows(table, name, rows, i) ==
    IF i > Len(rows) THEN table
    ELSE import_rows(IF rows[i] >= 11 THEN insert_row(table, <<name, i>>) ELSE table,
                     name, rows, i + 1)

\* open(...) raises FileNotFoundError, next(reader) raises StopIteration
ImportRaises(file) == ~file.found \/ file.rows = <<>>

\* what a run leaves behind
RunEnd(outcome, vendor, budget) ==
    [outcome |-> outcome, vendor |-> Len(vendor.rows), budget |-> Len(budget.rows)]

\* the position after the import of file k of `names`
AfterImport(names, k, commit) == IF k < Len(names) THEN names[k + 1] ELSE commit

BuilderInit ==
    /\ csv_files \in [CsvNames -> CsvTexts \cup YearCsvTexts]
    /\ csv_files["vendor_data.csv"] \in CsvTexts
    /\ csv_files["budget_data.csv"] \in CsvTexts
    /\ \A f \in CsvNames \ {"vendor_data.csv", "budget_data.csv"} :
           csv_files[f] \in YearCsvTexts
    /\ vendor_db = NoDb
    /\ budget_db = NoDb
    /\ build = BuildOff
    /\ SessionsIdle
    /\ ToolsIdle
    /\ ClientIdle
    /\ GateIdle
    /\ FlowIdle
    /\ ApiIdle
    /\ FunctionsIdle
    /\ LoopIdle

\* python sql_init.py: both connections are opened
RunScript ==
    /\ build.pc = "off"
    /\ build.run < MaxRuns
    /\ build' = [build EXCEPT !.pc = "create", !.run = @ + 1,
                              !.vendor = vendor_db, !.budget = budget_db]
    /\ UNCHANGED <<csv_files, vendor_db, budget_db>>
    /\ UNCHANGED <<smVars, toolVars, clientVars, gateVars, flowVars, apiVars, fnVars,
                   loopVars>>

\* lines 28-71: CREATE TABLE IF NOT EXISTS, outside any transaction
CreateTables ==
    /\ build.pc = "create"
    /\ vendor_db' = [vendor_db EXCEPT !.exists = TRUE]
    /\ budget_db' = [budget_db EXCEPT !.exists = TRUE]
    /\ build' = [build EXCEPT !.pc = "clear", !.vendor = vendor_db',
                              !.budget = budget_db']
    /\ UNCHANGED csv_files
    /\ UNCHANGED <<smVars, toolVars, clientVars, gateVars, flowVars, apiVars, fnVars,
                   loopVars>>

\* lines 74-79
ClearTables ==
    /\ build.pc = "clear"
    /\ build' = [build EXCEPT !.pc = VendorCsvs[1],
                              !.vendor = clear_table(build.vendor),
                              !.budget = clear_table(build.budget)]
    /\ UNCHANGED <<csv_files, vendor_db, budget_db>>
    /\ UNCHANGED <<smVars, toolVars, clientVars, gateVars, flowVars, apiVars, fnVars,
                   loopVars>>

\* lines 81-140: one `with open(...)` block of the vendor files
ImportVendor ==
    \E k \in 1..Len(VendorCsvs) :
        /\ build.pc = VendorCsvs[k]
        /\ LET file == csv_files[VendorCsvs[k]]
           IN  IF ImportRaises(file)
               THEN build' = [build EXCEPT
                                 !.pc = "off", !.vendor = vendor_db, !.budget = budget_db,
                                 !.ends = Append(@, RunEnd("raised", vendor_db, budget_db))]
               ELSE build' = [build EXCEPT
                                 !.pc = AfterImport(VendorCsvs, k, "commit_vendor"),
                                 !.vendor = import_rows(@, VendorCsvs[k], file.rows, 2)]
        /\ UNCHANGED <<csv_files, vendor_db, budget_db>>
        /\ UNCHANGED <<smVars, toolVars, clientVars, gateVars, flowVars, apiVars, fnVars,
                       loopVars>>

\* line 142
CommitVendor ==
    /\ build.pc = "commit_vendor"
    /\ vendor_db' = build.vendor
    /\ build' = [build EXCEPT !.pc = BudgetCsvs[1]]
    /\ UNCHANGED <<csv_files, budget_db>>
    /\ UNCHANGED <<smVars, toolVars, clientVars, gateVars, flowVars, apiVars, fnVars,
                   loopVars>>

\* lines 144-190: one `with open(...)` block of the budget files
ImportBudget ==
    \E k \in 1..Len(BudgetCsvs) :
        /\ build.pc = BudgetCsvs[k]
        /\ LET file == csv_files[BudgetCsvs[k]]
           IN  IF ImportRaises(file)
               THEN build' = [build EXCEPT
                                 !.pc = "off", !.vendor = vendor_db, !.budget = budget_db,
                                 !.ends = Append(@, RunEnd("raised", vendor_db, budget_db))]
               ELSE build' = [build EXCEPT
                                 !.pc = AfterImport(BudgetCsvs, k, "commit_budget"),
                                 !.budget = import_rows(@, BudgetCsvs[k], file.rows, 2)]
        /\ UNCHANGED <<csv_files, vendor_db, budget_db>>
        /\ UNCHANGED <<smVars, toolVars, clientVars, gateVars, flowVars, apiVars, fnVars,
                       loopVars>>

\* line 192
CommitBudget ==
    /\ build.pc = "commit_budget"
    /\ budget_db' = build.budget
    /\ build' = [build EXCEPT !.pc = "summary"]
    /\ UNCHANGED <<csv_files, vendor_db>>
    /\ UNCHANGED <<smVars, toolVars, clientVars, gateVars, flowVars, apiVars, fnVars,
                   loopVars>>

\* lines 194-217: the counts are read and the connections closed
Summary ==
    /\ build.pc = "summary"
    /\ build' = [build EXCEPT !.pc = "off",
                              !.ends = Append(@, RunEnd("done", vendor_db, budget_db))]
    /\ UNCHANGED <<csv_files, vendor_db, budget_db>>
    /\ UNCHANGED <<smVars, toolVars, clientVars, gateVars, flowVars, apiVars, fnVars,
                   loopVars>>

BuilderNext ==
    \/ RunScript
    \/ CreateTables
    \/ ClearTables
    \/ ImportVendor
    \/ CommitVendor
    \/ ImportBudget
    \/ CommitBudget
    \/ Summary

SpecBuilder == BuilderInit /\ [][BuilderNext]_vars

\* the data rows of a file that have at least 11 columns
WideRows(file) == Cardinality({i \in 2..Len(file.rows) : file.rows[i] >= 11})

RECURSIVE WideRowsOf(_)
WideRowsOf(names) ==
    IF names = <<>> THEN 0
    ELSE WideRows(csv_files[Head(names)]) + WideRowsOf(Tail(names))

\* the ids of a table are 1, 2, ... in the order of its rows
IdsFromOne(table) == \A i \in 1..Len(table.rows) : table.rows[i].id = i

\* C21: every run of the Database Builder against the same CSV files leaves
\* the same number of rows in vendor_payments and in budget as the first
\* run did; a run that reaches its end leaves exactly the data rows with at
\* least 11 columns, numbered from 1 (tables cleared, sequences reset).
C21_SameRowCounts ==
    /\ \A i \in 1..Len(build.ends) :
           /\ build.ends[i].vendor = build.ends[1].vendor
           /\ build.ends[i].budget = build.ends[1].budget
           /\ build.ends[i].outcome = "done" =>
                  /\ build.ends[i].vendor = WideRowsOf(VendorCsvs)
                  /\ build.ends[i].budget = WideRowsOf(BudgetCsvs)
    /\ (build.pc = "off" /\ build.ends # <<>>
        /\ build.ends[Len(build.ends)].outcome = "done") =>
           /\ IdsFromOne(vendor_db) /\ vendor_db.seq = Len(vendor_db.rows)
           /\ IdsFromOne(budget_db) /\ budget_db.seq = Len(budget_db.rows)

\* C21 witness: the second run has ended; the files hold two vendor rows and
\* one budget row wide enough and one vendor row that is too short, and the
\* tables hold two rows and one.
C21_Witness ==
    /\ Len(build.ends) = 2
    /\ build.ends[2] = [outcome |-> "done", vendor |-> 2, budget |-> 1]
    /\ csv_files["vendor_data.csv"].rows = <<header_width, 10>>
    /\ Len(vendor_db.rows) = 2
    /\ Len(budget_db.rows) = 1

-----------------------------------------------------------------------------
(* The request loop of the worker (run_nc_budget_agent) fed with arbitrary  *)
(* lines.  An input line is [json, id, method, params]: json tells what     *)
(* json.loads makes of it ("object", "array" for any JSON value that is not *)
(* an object, "invalid" when it raises); id is 0 when the object has none   *)
(* (request.get("id") is None); params.t is "dict" or "null".               *)

NoneId == 0

InputLine(json, id, method, params) ==
    [json |-> json, id |-> id, method |-> method, params |-> params]

Params(t, name, arguments) == [t |-> t, name |-> name, arguments |-> arguments]

\* the lines tried as line number i of the input
LinesAt(i) ==
    {InputLine("object", i, "tools/list", Params("dict", "", JNull)),
     InputLine("object", i, "resources/list", Params("dict", "", JNull)),
     InputLine("object", i, "tools/call", Params("dict", "no_such_tool", JNull)),
     InputLine("object", i, "tools/call", Params("null", "", JNull)),
     InputLine("object", NoneId, "tools/list", Params("dict", "", JNull)),
     InputLine("array", NoneId, "", Params("null", "", JNull)),
     InputLine("invalid", NoneId, "", Params("null", "", JNull))}

Inputs ==
    UNION {{lines \in [1..n -> UNION {LinesAt(i) : i \in 1..n}] :
                \A i \in 1..n : lines[i] \in LinesAt(i)} : n \in 0..MaxLines}

\* the line sent before the loop starts
Greeting == [id |-> NoneId, error |-> FALSE, result |-> [serverInfo |-> "nc-budget-agent"]]

\* the line sent by the except branch
InternalError(id) ==
    [id |-> id, error |-> TRUE, result |-> [error |-> [code |-> -32603]]]

\* what one turn of the loop did: the value of `request` after it, the lines
\* it sent, and whether an exception left the loop
Turn(request, sent, raised) == [request |-> request, sent |-> sent, raised |-> raised]

\* the except branch: request.get("id") if 'request' in locals() else None
except_branch(request) ==
    IF request.json = "unbound" THEN Turn(request, <<InternalError(NoneId)>>, FALSE)
    ELSE IF request.json = "object" THEN Turn(request, <<InternalError(request.id)>>, FALSE)
    ELSE Turn(request, <<>>, TRUE)

\* the try block for a line that is not empty
loop_body(line, request) ==
    IF line.json = "invalid" THEN except_branch(request)
    ELSE IF line.json # "object" THEN except_branch(line)
    ELSE IF line.method = "tools/call" /\ line.params.t # "dict" THEN except_branch(line)
    ELSE Turn(line,
              <<ServerResponse([id |-> line.id, method |-> line.method,
                                params |-> [name |-> line.params.name,
                                            arguments |-> line.params.arguments]],
                               DefaultReplies)>>,
              FALSE)

LoopInit ==
    /\ stdin_lines \in Inputs
    /\ stdout_lines = <<Greeting>>
    /\ loop_pc = "serving"
    /\ loop_request = Unbound
    /\ loop_read = <<>>
    /\ SessionsIdle
    /\ ToolsIdle
    /\ ClientIdle
    /\ GateIdle
    /\ FlowIdle
    /\ ApiIdle
    /\ FunctionsIdle
    /\ BuilderIdle

\* one turn of `while True` on a line that is not empty
ServeLine ==
    /\ loop_pc = "serving"
    /\ stdin_lines # <<>>
    /\ LET turn == loop_body(Head(stdin_lines), loop_request)
       IN  /\ loop_request' = turn.request
           /\ stdout_lines' = stdout_lines \o turn.sent
           /\ loop_pc' = IF turn.raised THEN "raised" ELSE "serving"
    /\ loop_read' = Append(loop_read, Head(stdin_lines))
    /\ stdin_lines' = Tail(stdin_lines)
    /\ UNCHANGED <<smVars, toolVars, clientVars, gateVars, flowVars, apiVars, fnVars,
                   builderVars>>

\* readline returns '' at the end of the input: break
EndOfInput ==
    /\ loop_pc = "serving"
    /\ stdin_lines = <<>>
    /\ loop_pc' = "stopped"
    /\ UNCHANGED <<stdin_lines, stdout_lines, loop_request, loop_read>>
    /\ UNCHANGED <<smVars, toolVars, clientVars, gateVars, flowVars, apiVars, fnVars,
                   builderVars>>

LoopNext ==
    \/ ServeLine
    \/ EndOfInput

SpecLoop == LoopInit /\ [][LoopNext]_vars

\* parsing or dispatch of the line raises
LineRaises(line) ==
    \/ line.json # "object"
    \/ line.method = "tools/call" /\ line.params.t # "dict"

\* the response written for line i of the input (the greeting comes first)
ResponseTo(i) == stdout_lines[i + 1]

\* C22: for every input, the server has written one response line for each
\* line it has read, in the order of the lines, an internal error (-32603)
\* where parsing or dispatch raised; it goes on serving after such a line
\* and stops only at the end of the input.
C22_OneResponsePerLine ==
    /\ loop_pc # "raised"
    /\ Len(stdout_lines) = Len(loop_read) + 1
    /\ loop_pc = "stopped" => stdin_lines = <<>>
    /\ \A i \in 1..Len(loop_read) :
           i + 1 <= Len(stdout_lines) =>
               /\ LineRaises(loop_read[i]) =>
                      /\ ResponseTo(i).error
                      /\ ResponseTo(i).result.error.code = -32603
               /\ ~LineRaises(loop_read[i]) =>
                      /\ ~ResponseTo(i).error
                      /\ ResponseTo(i).id = loop_read[i].id

\* the id of the request a line holds, None when it holds no request
IdOf(line) == IF line.json = "object" THEN line.id ELSE NoneId

\* C28: every response line carries the id of the request line it answers;
\* the internal-error response to a line that fails to parse carries no id
\* of an earlier request.
C28_ResponseCarriesRequestId ==
    \A i \in 1..Len(loop_read) :
        i + 1 <= Len(stdout_lines) => ResponseTo(i).id = IdOf(loop_read[i])

=============================================================================
